---------------------------- MODULE Spec2Model ----------------------------
(***************************************************************************)
(* Model of knaaktomatisering: the weekly reconciliation of Pretix ticket  *)
(* sales against Exact Online.                                             *)
(*                                                                         *)
(* The module holds several specifications over one set of variables:      *)
(*   SpecWindow  the window computation and the window filter              *)
(*               (time_util.rs, the filter of pretix.rs)                  *)
(*   SpecExport  one invocation of the export driver                       *)
(*               (DataExporter::run_exporter / wait_for_export)            *)
(*   LiveExport  SpecExport with the fairness of the async runtime         *)
(*   SpecTotals  the fan-out pretix_totals                                 *)
(*   SpecRun     WeekelijksePlezier::execute_mode                          *)
(* Every specification leaves the variables of the others at their idle    *)
(* values.                                                                 *)
(***************************************************************************)
EXTENDS Integers, Sequences, FiniteSets, TLC

VARIABLES
    \* ---- window computation and filter (SpecWindow) ----
    wpc,            \* position of the window harness
    now,            \* OffsetDateTime::now_utc(), seconds since the epoch
    offset,         \* the run's UtcOffset, whole seconds
    periods_ago,    \* args.periods_ago
    export_period_start, \* last_monday(offset) - weeks(periods_ago)
    period,         \* result of pretix_export_period
    orders,         \* data_export.orders
    export_items,   \* the orders retained by the window filter
    \* ---- one invocation of the export driver (SpecExport) ----
    xpc,            \* position of the driver
    url,            \* the download URL returned by run_exporter
    gets,           \* GETs issued to the download URL
    conflicts,      \* polls answered 409
    slept,          \* seconds slept by the poll loop
    resp,           \* the last response to a poll
    result,         \* what the driver returned
    \* ---- the fan-out pretix_totals (SpecTotals, SpecRun) ----
    tpc,            \* position of pretix_totals
    orgs,           \* the organizer futures, each with its event futures
    totals_result,  \* what pretix_totals returned
    http,           \* the HTTP requests issued so far
    \* ---- execute_mode (SpecRun) ----
    rpc,            \* position of execute_mode
    division,       \* ExactClient::accounting_division
    run_result,     \* what execute_mode returned
    \* ---- one event's aggregation (SpecAggregate) ----
    apc,            \* position in the aggregation of one event
    sale_items,     \* data_export.items, the sale-item catalog of the export
    order_totals,   \* the OrderExportTotals computed (`totals`)
    item_totals,    \* the result of calc_order_totals_per_sale_item
    totals_per_item_result, \* the totals per display name, or the lookup error
    \* ---- the classifier loop of execute_mode (SpecClassify) ----
    cpc,            \* position in the loop over the summaries
    summaries,      \* the summaries, in the order the HashMap is iterated
    event_index,    \* the place in `summaries` of the event being processed
    event_specific, \* config.pretix.event_specific
    cost_centers,   \* the compiled patterns with their cost centers, a Vec
    lines,          \* the line descriptors emitted so far
    classify_result, \* what the loop made execute_mode return
    \* ---- calls on one ExactClient (SpecClient) ----
    url_result,     \* what the last divisioned_url returned
    set_calls,      \* set_division calls so far
    url_calls,      \* divisioned_url calls so far
    last_set,       \* the argument of the last set_division call
    \* ---- one exact_filter::Filter (SpecFilter) ----
    fpc,            \* "none", "built" or "finalized"
    filter,         \* Filter.0, the text built so far, a sequence of characters
    parts,          \* the calls that built it: connective, key, operation, value
    joined,         \* whether join_and or join_or was among them
    finalized       \* what finalize returned

winVars == <<wpc, now, offset, periods_ago, export_period_start, period,
             orders, export_items>>

expVars == <<xpc, url, gets, conflicts, slept, resp, result>>

fanVars == <<tpc, orgs, totals_result, http>>

runVars == <<rpc, division, run_result>>

aggVars == <<apc, sale_items, order_totals, item_totals, totals_per_item_result>>

clsVars == <<cpc, summaries, event_index, event_specific, cost_centers,
             lines, classify_result>>

cliVars == <<url_result, set_calls, url_calls, last_set>>

filVars == <<fpc, filter, parts, joined, finalized>>

auxVars == <<aggVars, clsVars, cliVars, filVars>>

vars == <<winVars, expVars, fanVars, runVars, auxVars>>

-----------------------------------------------------------------------------
(* Results.  Ok(v) and Err(e) of the Rust code. *)
Ok(v)  == [ok |-> TRUE,  val |-> v]
Err(e) == [ok |-> FALSE, err |-> e]

Min(a, b) == IF a <= b THEN a ELSE b

-----------------------------------------------------------------------------
(* Time.  An OffsetDateTime is a UTC instant (seconds since 1970-01-01     *)
(* 00:00 UTC) together with a UTC offset in seconds; two OffsetDateTime    *)
(* values compare by their instant.                                        *)

SecondsPerHour == 3600
SecondsPerDay  == 24 * SecondsPerHour

Monday    == 0
Tuesday   == 1
Wednesday == 2
Thursday  == 3
Friday    == 4
Saturday  == 5
Sunday    == 6

OffsetDateTime(utc, off) == [utc |-> utc, off |-> off]

(* UtcOffset::from_whole_seconds(hours * 3600) *)
UtcOffsetOfHours(h) == h * SecondsPerHour

(* OffsetDateTime::to_offset: the same instant seen in another offset. *)
to_offset(t, off) == OffsetDateTime(t.utc, off)

(* OffsetDateTime::date: the local calendar day, in days since the epoch. *)
date(t) == (t.utc + t.off) \div SecondsPerDay

(* OffsetDateTime::time: the local time of day, in seconds. *)
time_of_day(t) == (t.utc + t.off) % SecondsPerDay

(* OffsetDateTime::weekday: 1970-01-01 was a Thursday. *)
weekday(t) == (date(t) + Thursday) % 7

(* Date::with_time(time).assume_offset(offset) *)
assume_offset(d, tod, off) == OffsetDateTime(d * SecondsPerDay + tod - off, off)

(* OffsetDateTime - Duration *)
minus_seconds(t, s) == OffsetDateTime(t.utc - s, t.off)

Midnight == 0

(* The match of last_monday: days to step back from each weekday. *)
DaysBackSundayOff(wd) == IF wd = Sunday THEN 7 ELSE wd

DaysBack(wd) ==
    CASE wd = Monday    -> 0
      [] wd = Tuesday   -> 1
      [] wd = Wednesday -> 2
      [] wd = Thursday  -> 3
      [] wd = Friday    -> 4
      [] wd = Saturday  -> 5
      [] wd = Sunday    -> 6

yesterday_midnight(now_utc, off) ==
    assume_offset(date(to_offset(OffsetDateTime(now_utc, 0), off)) - 1, Midnight, off)

(* last_monday(offset), with the clock's reading as a parameter. *)
last_monday(now_utc, off) ==
    LET n == to_offset(OffsetDateTime(now_utc, 0), off)
        d == date(n)
    IN  assume_offset(d - DaysBack(weekday(n)), Midnight, off)

(* last_monday(offset) - Duration::weeks(periods_ago) *)
ExportPeriodStart(now_utc, off, p) ==
    minus_seconds(last_monday(now_utc, off), p * 7 * SecondsPerDay)

(* Days from the window's Monday to its end. *)
PeriodDays == 6

(* pretix_export_period(monday, offset) *)
pretix_export_period(monday, off) ==
    IF weekday(monday) # Monday
    THEN Err("not a monday")
    ELSE Ok([start |-> assume_offset(date(monday), Midnight, off),
             end   |-> assume_offset(date(monday) + PeriodDays, Midnight, off)])

(* The closure of the window filter: order_item.datetime >= period_start   *)
(* && order_item.datetime <= period_end.                                   *)
InPeriodEndExclusive(order_item, period_start, period_end) ==
    /\ order_item.datetime.utc >= period_start.utc
    /\ order_item.datetime.utc < period_end.utc

InPeriod(order_item, period_start, period_end) ==
    /\ order_item.datetime.utc >= period_start.utc
    /\ order_item.datetime.utc <= period_end.utc

(* into_iter().filter(..).collect::<Vec<_>>() *)
RECURSIVE FilterOrders(_, _, _)
FilterOrders(os, period_start, period_end) ==
    IF os = <<>> THEN <<>>
    ELSE LET rest == FilterOrders(Tail(os), period_start, period_end)
         IN  IF InPeriod(Head(os), period_start, period_end)
             THEN <<Head(os)>> \o rest
             ELSE rest

-----------------------------------------------------------------------------
(* Aggregation (pretix.rs).  Amounts are exact integers (cents).  A        *)
(* HashMap is the set of its entries [k |-> key, v |-> value], one entry   *)
(* per key.                                                                *)

Keys(m) == {e.k : e \in m}
Get(m, k) == (CHOOSE e \in m : e.k = k).v

InsertKeepFirst(m, k, v) ==
    IF k \in Keys(m) THEN m ELSE m \cup {[k |-> k, v |-> v]}

(* HashMap::insert / collecting one more pair into a HashMap: the later    *)
(* value of a key replaces the earlier one.                                *)
Insert(m, k, v) == {e \in m : e.k # k} \cup {[k |-> k, v |-> v]}

(* .collect::<HashMap<_, _>>() of a sequence of pairs [k, v] *)
RECURSIVE CollectMap(_)
CollectMap(pairs) ==
    IF pairs = <<>> THEN {}
    ELSE LET n == Len(pairs)
         IN  Insert(CollectMap(SubSeq(pairs, 1, n - 1)), pairs[n].k, pairs[n].v)

RECURSIVE SumSeq(_)
SumSeq(q) == IF q = <<>> THEN 0 ELSE Head(q) + SumSeq(Tail(q))

OrderFeesFirstOnly(order) == IF order.fees = <<>> THEN 0 ELSE order.fees[1]

(* item.fees.iter().map(|fee_item| fee_item.value).sum() *)
OrderFees(order) == SumSeq(order.fees)

(* order_export_calc_totals *)
RECURSIVE order_export_calc_totals(_)
order_export_calc_totals(items) ==
    IF items = <<>> THEN [value |-> 0, fees |-> 0]
    ELSE LET n    == Len(items)
             acc  == order_export_calc_totals(SubSeq(items, 1, n - 1))
             fees == OrderFees(items[n])
         IN  [value |-> acc.value + (items[n].total - fees),
              fees  |-> acc.fees + fees]

(* The map of one order: K = item id, V = item price (pretix.rs 121-125). *)
OrderPositions(order) ==
    CollectMap([i \in DOMAIN order.ordered_items |->
                  [k |-> order.ordered_items[i].item,
                   v |-> order.ordered_items[i].price]])

(* calc_order_totals_per_sale_item: the maps of the orders summed per key  *)
(* (pretix.rs 131-141).                                                    *)
RECURSIVE calc_order_totals_per_sale_item(_)
calc_order_totals_per_sale_item(os) ==
    IF os = <<>> THEN {}
    ELSE LET n      == Len(os)
             totals == calc_order_totals_per_sale_item(SubSeq(os, 1, n - 1))
             pos    == OrderPositions(os[n])
         IN  {e \in totals : e.k \notin Keys(pos)}
             \cup {[k |-> e.k,
                    v |-> IF e.k \in Keys(totals)
                          THEN Get(totals, e.k) + e.v ELSE e.v] : e \in pos}

(* pretix.rs 78: the orders whose positions are summed and resolved are    *)
(* the retained ones, `&export_items`.                                     *)
ResolvedOrdersAll(all_orders, retained) == all_orders

ResolvedOrders(all_orders, retained) == retained

(* data_export.items.iter().find(|sale_item| sale_item.id == item_id) *)
HasSaleItem(catalog, item_id) ==
    \E i \in DOMAIN catalog : catalog[i].id = item_id

FindSaleItem(catalog, item_id) ==
    catalog[CHOOSE i \in DOMAIN catalog :
                /\ catalog[i].id = item_id
                /\ \A j \in 1..(i - 1) : catalog[j].id # item_id]

(* pretix.rs 78-87: the totals per item id turned into totals per display  *)
(* name.  `ord` is the order in which the HashMap of totals is iterated.   *)
totals_per_item(per_id, catalog, ord) ==
    IF \E id \in Keys(per_id) : ~HasSaleItem(catalog, id)
    THEN [ok |-> FALSE, val |-> {}]
    ELSE [ok |-> TRUE,
          val |-> CollectMap([i \in DOMAIN ord |->
                     [k |-> FindSaleItem(catalog, ord[i]).name,
                      v |-> Get(per_id, ord[i])]])]

(* The orders in which a HashMap with these keys may be iterated. *)
IterationOrders(keys) ==
    {f \in [1..Cardinality(keys) -> keys] :
        \A i, j \in 1..Cardinality(keys) : i # j => f[i] # f[j]}

-----------------------------------------------------------------------------
(* The export driver: DataExporter::run_exporter and wait_for_export.      *)

StatusOk       == 200
StatusConflict == 409
StatusGone     == 410

(* Seconds of tokio::time::sleep after a 409. *)
BackoffSecs == 1

(* A response body: a JSON object with a string field `message`            *)
(* (kind "message"), a JSON object with a string field `download`          *)
(* (kind "download"), any other payload (kind "data"), or bytes that are   *)
(* no JSON (kind "garbage").                                               *)
Body(kind, text) == [kind |-> kind, text |-> text]

Response(status, body) == [status |-> status, body |-> body]

NoBody  == Body("none", "")
NoResp  == Response(0, NoBody)

(* ExporterError *)
ErrRequest          == [kind |-> "Request",    reason |-> "", status |-> 0]
ErrExportFail(r)    == [kind |-> "ExportFail", reason |-> r,  status |-> 0]
ErrOther(st)        == [kind |-> "Other",      reason |-> "", status |-> st]
NoError             == [kind |-> "none",       reason |-> "", status |-> 0]

Returned(r) == [returned |-> TRUE,  ok |-> TRUE,  val |-> r,      err |-> NoError]
Raised(e)   == [returned |-> TRUE,  ok |-> FALSE, val |-> NoResp, err |-> e]
NotReturned == [returned |-> FALSE, ok |-> FALSE, val |-> NoResp, err |-> NoError]

(* The arm of `match response.status()` taken for a status. *)
StatusArmAnySuccess(status) ==
    CASE status = StatusConflict            -> "CONFLICT"
      [] status \in 200..299                -> "OK"
      [] status = StatusGone                -> "GONE"
      [] OTHER                              -> "_"

StatusArm(status) ==
    CASE status = StatusConflict -> "CONFLICT"
      [] status = StatusOk       -> "OK"
      [] status = StatusGone     -> "GONE"
      [] OTHER                   -> "_"

DecodesGoneAlways(body) == TRUE

(* response.json::<GoneResponse>(): the body decodes iff it is a JSON      *)
(* object with a string `message`.                                         *)
DecodesGone(body) == body.kind = "message"

(* The reason of ExportFail: body.message. *)
GoneReasonGeneric(body) == "Export failed"

GoneReason(body) == body.text

(* Where the loop goes after a 409: it sleeps, then polls again. *)
OnConflictNoSleep == "poll"

OnConflictCapped == IF conflicts >= 2 THEN "unknown" ELSE "sleep"

OnConflict == "sleep"

(* One turn of the match, for a response: the driver's next position and   *)
(* what it returns.                                                        *)
WaitOutcome(r) ==
    LET arm == StatusArm(r.status)
    IN  CASE arm = "CONFLICT" -> [pc |-> OnConflict, result |-> NotReturned]
          [] arm = "OK"       -> [pc |-> "ready", result |-> Returned(r)]
          [] arm = "GONE"     ->
                IF DecodesGone(r.body)
                THEN [pc |-> "failed",
                      result |-> Raised(ErrExportFail(GoneReason(r.body)))]
                ELSE [pc |-> "request_error", result |-> Raised(ErrRequest)]
          [] OTHER            -> [pc |-> "unknown",
                                  result |-> Raised(ErrOther(r.status))]

-----------------------------------------------------------------------------
(* The fan-out pretix_totals (pretix.rs 25-114): data.                     *)

(* An HTTP request, as the log keeps it: the API and what is asked. *)
Request(api, kind) == [api |-> api, kind |-> kind]

(* The result of pretix_totals: Ok(map of EventId to EventSummary) or an   *)
(* error.                                                                  *)
TotalsOk(m)  == [returned |-> TRUE,  ok |-> TRUE,  val |-> m,  err |-> NoError]
TotalsErr(e) == [returned |-> TRUE,  ok |-> FALSE, val |-> {}, err |-> e]
NoTotals     == [returned |-> FALSE, ok |-> FALSE, val |-> {}, err |-> NoError]

ErrNotMonday == [kind |-> "NotMonday", reason |-> "", status |-> 0]
ErrLookup    == [kind |-> "SaleItemLookup", reason |-> "", status |-> 0]

NoTotalsPair == [value |-> 0, fees |-> 0]
NoSummary == [event_name |-> "", totals |-> NoTotalsPair, pdf |-> "",
              sale_items |-> <<>>, items |-> {}]

(* The filter on the listing of an organizer: .filter(|event| event.live) *)
RetainedAll(event) == TRUE

Retained(event) == event.live

(* event.name.get("en").cloned().unwrap_or(event.slug.to_string()) *)
EventName(event) == IF event.en # "" THEN event.en ELSE event.slug

(* The exporters an event future runs when it is first polled: the POST    *)
(* that starts the JSON export is sent (pretix.rs 48-53).                  *)
FirstExportersBoth == {"json", "pdfreport"}

FirstExporters == {"json"}

(* The event future as it is created for an event of the listing; it is    *)
(* polled at once.  `started` holds the exporters whose run request the    *)
(* future has sent.  An event the filter drops gets no future.             *)
NewTask(event) ==
    [slug |-> event.slug, live |-> event.live, en |-> event.en,
     pc |-> IF Retained(event) THEN "json_post" ELSE "skipped",
     started |-> IF Retained(event) THEN FirstExporters ELSE {},
     data |-> "", summary |-> NoSummary]

RunRequests(exporters) == {Request("pretix", "run_" \o e) : e \in exporters}

TaskPending(t) == t.pc \in {"json_post", "json_get", "pdf_post", "pdf_get"}
TaskSettled(t) == t.pc \in {"skipped", "done"}

(* try_join_all over the events of one organizer is ready. *)
OrgJoined(org) ==
    /\ org.pc = "joined"
    /\ \A i \in DOMAIN org.events : TaskSettled(org.events[i])

(* The results of one organizer, in the order of its listing. *)
RECURSIVE OrgResults(_)
OrgResults(evs) ==
    IF evs = <<>> THEN <<>>
    ELSE LET n == Len(evs)
             r == OrgResults(SubSeq(evs, 1, n - 1))
         IN  IF evs[n].pc = "done"
             THEN Append(r, [k |-> evs[n].slug, v |-> evs[n].summary])
             ELSE r

(* .into_iter().flatten(): the results of all organizers, in order. *)
RECURSIVE Flatten(_)
Flatten(os) ==
    IF os = <<>> THEN <<>>
    ELSE LET n == Len(os)
         IN  Flatten(SubSeq(os, 1, n - 1)) \o OrgResults(os[n].events)

(* .collect::<HashMap<_, _>>() of the flattened results *)
MergeResults(os) == CollectMap(Flatten(os))

(* A failed join drops its futures, those still running included. *)
Dropped(os) == <<>>

-----------------------------------------------------------------------------
(* execute_mode (modes/weekelijkse_plezier/mod.rs): data.                  *)

(* ExactClient::accounting_division: Option<i32> *)
NoDivision      == [some |-> FALSE, v |-> 0]
SomeDivision(d) == [some |-> TRUE,  v |-> d]

ErrPeriodsAgo  == [kind |-> "PeriodsAgoZero", reason |-> "", status |-> 0]
ErrNoDivision  == [kind |-> "NoDivision",     reason |-> "", status |-> 0]
ErrExact       == [kind |-> "Exact",          reason |-> "", status |-> 0]

RunOk     == [returned |-> TRUE,  ok |-> TRUE,  err |-> NoError]
RunErr(e) == [returned |-> TRUE,  ok |-> FALSE, err |-> e]
NoRun     == [returned |-> FALSE, ok |-> FALSE, err |-> NoError]

(* mod.rs 35: `if args.periods_ago == 0` *)
PeriodsAgoNotChecked(p) == FALSE

PeriodsAgoRejected(p) == p = 0

(* ExactClient::set_division *)
set_division_dropped(div, d) == div

set_division_once(div, d) == IF div.some THEN div ELSE SomeDivision(d)

set_division(div, d) == SomeDivision(d)

(* ExactClient::divisioned_url: the URL, or NoDivisionError *)
divisioned_url(div, path) ==
    IF div.some
    THEN [ok |-> TRUE,  val |-> <<"/api/v1/", div.v, path>>]
    ELSE [ok |-> FALSE, val |-> <<>>]

-----------------------------------------------------------------------------
(* The classifier loop of execute_mode (mod.rs 65-193): functions.         *)

None    == [some |-> FALSE, v |-> ""]
Some(x) == [some |-> TRUE,  v |-> x]

ClsErr(kind, reason) == [kind |-> kind, reason |-> reason, status |-> 0]

(* Regex::new: the pattern "(" does not compile. *)
Compiles(pattern) == pattern # "("

(* Regex::is_match for the patterns of the configurations: ".*" matches    *)
(* every name, a pattern that is a product name matches that name.         *)
is_match(pattern, name) == pattern = ".*" \/ pattern = name

(* A line descriptor, as logged by "Creating sale line in Exact". *)
Line(event_key, item_key, gl_account, name, cost_center, vat, amount) ==
    [event |-> event_key, item |-> item_key, gl_account |-> gl_account,
     name |-> name, cost_center |-> cost_center, vat |-> vat,
     amount |-> amount]

BookkeepingGl == "5007"

line_name(summary)     == "Pretix " \o summary.event_name
trx_line_name(summary) == line_name(summary) \o " | Transactiekosten"

(* mod.rs 168-171 and 188-191: the line of the transaction costs. *)
FeeLine(event_key, summary) ==
    Line(event_key, "", BookkeepingGl, trx_line_name(summary), "", "",
         summary.totals.fees)

Classified(ls)   == [ok |-> TRUE,  lines |-> ls, err |-> NoError]
Rejected(ls, e)  == [ok |-> FALSE, lines |-> ls, err |-> e]

(* mod.rs 111-117 *)
IgnoreCompiles(event_config) ==
    \A i \in DOMAIN event_config.ignore_products :
        Compiles(event_config.ignore_products[i])

is_ignored(event_config, item_key) ==
    \E i \in DOMAIN event_config.ignore_products :
        is_match(event_config.ignore_products[i], item_key)

(* mod.rs 128-135: cost_centers.iter().find(|(pattern, _)| is_match) *)
HasCostCenter(ccs, item_key) ==
    \E i \in DOMAIN ccs : is_match(ccs[i].pattern, item_key)

FindCostCenter(ccs, item_key) ==
    ccs[CHOOSE i \in DOMAIN ccs :
           /\ is_match(ccs[i].pattern, item_key)
           /\ \A j \in 1..(i - 1) : ~is_match(ccs[j].pattern, item_key)]

(* mod.rs 138-145 *)
HasNamedSaleItem(catalog, item_key) ==
    \E i \in DOMAIN catalog : catalog[i].name = item_key

FindNamedSaleItem(catalog, item_key) ==
    catalog[CHOOSE i \in DOMAIN catalog :
               /\ catalog[i].name = item_key
               /\ \A j \in 1..(i - 1) : catalog[j].name # item_key]

(* mod.rs 148-156 *)
HasVatCode(vat_codes, rate) ==
    \E i \in DOMAIN vat_codes : vat_codes[i].percentage = rate

FindVatCode(vat_codes, rate) ==
    vat_codes[CHOOSE i \in DOMAIN vat_codes :
                 /\ vat_codes[i].percentage = rate
                 /\ \A j \in 1..(i - 1) : vat_codes[j].percentage # rate]

(* mod.rs 131-134: the error of a product no pattern matches. *)
UnmatchedProductUnnamed(event_key, item_key) == ClsErr("NoCostCenter", "")

UnmatchedProduct(event_key, item_key) ==
    ClsErr("NoCostCenter", event_key \o "/" \o item_key)

(* Whether an ignored item leaves the body of the loop (mod.rs 119-125). *)
SkipsIgnoredNever(ignored) == FALSE

SkipsIgnored(ignored) == ignored

(* mod.rs 108-166: the body of the loop over summary.items for one item:   *)
(* no line for an ignored item, one line for a classified one, an error.   *)
ClassifyItem(event_key, summary, event_config, vat_codes, ccs, item_key, line_value) ==
    IF ~IgnoreCompiles(event_config)
    THEN Rejected(<<>>, ClsErr("Regex", ""))
    ELSE IF SkipsIgnored(is_ignored(event_config, item_key))
    THEN Classified(<<>>)
    ELSE IF ~HasCostCenter(ccs, item_key)
    THEN Rejected(<<>>, UnmatchedProduct(event_key, item_key))
    ELSE IF ~HasNamedSaleItem(summary.sale_items, item_key)
    THEN Rejected(<<>>, ClsErr("NoSaleItem", event_key \o "/" \o item_key))
    ELSE LET sale_item == FindNamedSaleItem(summary.sale_items, item_key)
         IN  IF ~HasVatCode(vat_codes, sale_item.tax_rate)
             THEN Rejected(<<>>, ClsErr("NoVatCode", event_key \o "/" \o item_key))
             ELSE Classified(<<Line(event_key, item_key,
                                    event_config.gl_account,
                                    line_name(summary) \o " | " \o item_key,
                                    FindCostCenter(ccs, item_key).code,
                                    FindVatCode(vat_codes, sale_item.tax_rate).percentage,
                                    line_value)>>)

(* mod.rs 103-171: the items in the order `ord` the HashMap is iterated;   *)
(* the lines logged before an error stay logged.                           *)
RECURSIVE ClassifySplit(_, _, _, _, _, _)
ClassifySplit(event_key, summary, event_config, vat_codes, ccs, ord) ==
    IF ord = <<>>
    THEN Classified(<<>>)
    ELSE LET n    == Len(ord)
             init == ClassifySplit(event_key, summary, event_config, vat_codes,
                                   ccs, SubSeq(ord, 1, n - 1))
             this == ClassifyItem(event_key, summary, event_config, vat_codes,
                                  ccs, ord[n], Get(summary.items, ord[n]))
         IN  IF ~init.ok THEN init
             ELSE IF ~this.ok THEN Rejected(init.lines, this.err)
             ELSE Classified(init.lines \o this.lines)

ClassifyCombinedUnchecked(event_key, summary, event_config) ==
    Classified(<<Line(event_key, "", event_config.gl_account,
                      line_name(summary), "", event_config.vat_code.v,
                      summary.totals.value),
                 FeeLine(event_key, summary)>>)

(* mod.rs 172-192 *)
ClassifyCombined(event_key, summary, event_config) ==
    IF ~event_config.vat_code.some
    THEN Rejected(<<>>, ClsErr("MissingVatCode", event_key))
    ELSE Classified(<<Line(event_key, "", event_config.gl_account,
                           line_name(summary), "", event_config.vat_code.v,
                           summary.totals.value),
                      FeeLine(event_key, summary)>>)

(* mod.rs 103-192 *)
ClassifyEvent(event_key, summary, event_config, vat_codes, ccs, ord) ==
    IF event_config.split_per_product
    THEN LET items == ClassifySplit(event_key, summary, event_config,
                                    vat_codes, ccs, ord)
         IN  IF items.ok
             THEN Classified(items.lines \o <<FeeLine(event_key, summary)>>)
             ELSE items
    ELSE ClassifyCombined(event_key, summary, event_config)

-----------------------------------------------------------------------------
(* exact_filter (exact_filter/src/lib.rs).  A text is the sequence of its  *)
(* characters.                                                             *)

FilterOps == {"Equals", "NotEqual", "GreaterThan", "GreatherThanEquals",
              "LessThan", "LessThanEquals"}

(* FilterOp::serialize *)
FilterOp_serialize(op) ==
    CASE op = "Equals"             -> <<"e", "q">>
      [] op = "NotEqual"           -> <<"n", "e">>
      [] op = "GreaterThan"        -> <<"g", "t">>
      [] op = "GreatherThanEquals" -> <<"g", "e">>
      [] op = "LessThan"           -> <<"l", "t">>
      [] op = "LessThanEquals"     -> <<"l", "e">>

(* A FilterValue: a String or &str, a Guid (Guid::new), or a reference to   *)
(* one of them, with the text it holds.                                    *)
Str(text)       == [kind |-> "String", text |-> text]
Guid_new(text)  == [kind |-> "Guid", text |-> text]
RefTo(value)    == [kind |-> "Ref" \o value.kind, text |-> value.text]

(* Guid::serialize *)
Guid_serialize(text) == <<"g", "u", "i", "d", "'">> \o text \o <<"'">>

(* ToString of a value: a String is its text, a Guid is Guid::serialize,   *)
(* and a reference is what its referent is.                                *)
to_string(value) ==
    IF value.kind \in {"Guid", "RefGuid"} THEN Guid_serialize(value.text)
    ELSE value.text

(* FilterValue::serialize: the default body wraps to_string in quotes;     *)
(* only the implementation for Guid replaces it, the implementation for a  *)
(* reference to a FilterValue is empty and so keeps the default body.      *)
FilterValue_serialize(value) ==
    IF value.kind = "Guid" THEN Guid_serialize(value.text)
    ELSE <<"'">> \o to_string(value) \o <<"'">>

(* Filter::format_filter_string *)
format_filter_string(key, value, op) ==
    key \o <<"+">> \o FilterOp_serialize(op) \o <<"+">>
        \o FilterValue_serialize(value)

(* FilterFunction *)
FilterFunctions == {"StartsWith", "EndsWith", "SubstringOf"}

(* FilterFunction::apply *)
FilterFunction_apply(f, v, to) ==
    (CASE f = "StartsWith"  -> <<"s", "t", "a", "r", "t", "s", "w", "i", "t", "h">>
       [] f = "EndsWith"    -> <<"e", "n", "d", "s", "w", "i", "t", "h">>
       [] f = "SubstringOf" -> <<"s", "u", "b", "s", "t", "r", "i", "n", "g",
                                 "o", "f">>)
        \o <<"(">> \o to \o <<",", " ">> \o v \o <<")">>

(* Filter::function *)
Filter_function(text, key, f, v, op, value) ==
    text \o <<"+">> \o format_filter_string(FilterFunction_apply(f, v, key), value, op)

(* Filter::new *)
Filter_new(key, value, op) == format_filter_string(key, value, op)

(* Filter::push_operation *)
push_operation(text, name, key, value, op) ==
    text \o <<"+">> \o name \o <<"+">> \o format_filter_string(key, value, op)

(* Filter::and, Filter::or *)
Filter_and(text, key, value, op) ==
    push_operation(text, <<"a", "n", "d">>, key, value, op)
Filter_or(text, key, value, op) ==
    push_operation(text, <<"o", "r">>, key, value, op)

join_bare(text, other, op) == text \o <<"+">> \o op \o <<"+">> \o other

(* Filter::join *)
join(text, other, op) ==
    <<"(">> \o text \o <<"+">> \o op \o <<"+">> \o other \o <<")">>

(* Filter::join_and, Filter::join_or *)
join_and(text, other) == join(text, other, <<"a", "n", "d">>)
join_or(text, other)  == join(text, other, <<"o", "r">>)

finalize_open_only(text) ==
    IF text # <<>> /\ Head(text) = "("
    THEN SubSeq(text, 2, Len(text) - 1)
    ELSE text

(* Filter::finalize *)
finalize(text) ==
    IF text # <<>> /\ Head(text) = "(" /\ text[Len(text)] = ")"
    THEN SubSeq(text, 2, Len(text) - 1)
    ELSE text

-----------------------------------------------------------------------------
(* Bounds of the inputs. *)
MaxDay         == 6    \* the clock is read on days 0..MaxDay after the base day
MaxOffsetHours == 14   \* utc_offset_hours ranges over -MaxOffsetHours..MaxOffsetHours
MaxPeriodsAgo  == 2    \* periods_ago ranges up to MaxPeriodsAgo
MaxOrders      == 2    \* orders in one export

BaseDay == 5 * 7       \* the first day on which the clock is read

(* Readings of the clock: the first and the last second of each day. *)
NowSamples ==
    { (BaseDay + d) * SecondsPerDay + s :
        d \in 0..MaxDay, s \in {0, SecondsPerDay - 1} }

OffsetHours == (0 - MaxOffsetHours)..MaxOffsetHours

(* Instants of orders the server may return, relative to a window: the     *)
(* seconds around both ends, noon of the Monday, of a day in the middle    *)
(* and of the Sunday, and the last second of the Sunday and the first of   *)
(* the Monday after.                                                       *)
OrderInstants(p) ==
    {p.start.utc - 1, p.start.utc, p.end.utc, p.end.utc + 1}
    \cup {p.start.utc + d * SecondsPerDay + 12 * SecondsPerHour : d \in {0, 3, 6}}
    \cup {p.start.utc + 7 * SecondsPerDay - 1, p.start.utc + 7 * SecondsPerDay}

(* The order lists of an export: every order carries its place in the list *)
(* as id; the datetimes of one export share the offset they are written in. *)
OrderLists(p, offs) ==
    UNION { { [i \in 1..n |-> [id |-> i,
                               datetime |-> OffsetDateTime(f[i], off)]] :
                f \in [1..n -> OrderInstants(p)], off \in offs } :
            n \in 0..MaxOrders }

-----------------------------------------------------------------------------
(* The idle values: a specification leaves the variables of the others     *)
(* at these.                                                               *)

NoTime   == OffsetDateTime(0, 0)
NoPeriod == Err("none")

WinIdle ==
    /\ wpc = "idle" /\ now = 0 /\ offset = 0 /\ periods_ago = 0
    /\ export_period_start = NoTime /\ period = NoPeriod
    /\ orders = <<>> /\ export_items = <<>>

ExpIdle ==
    /\ xpc = "idle" /\ url = "" /\ gets = 0 /\ conflicts = 0 /\ slept = 0
    /\ resp = NoResp /\ result = NotReturned

-----------------------------------------------------------------------------
(* SpecWindow: execute_mode's computation of the window (mod.rs 50-53),    *)
(* pretix_totals' call of pretix_export_period (pretix.rs 30) and the      *)
(* window filter (pretix.rs 56-63), for every input.                       *)

NoAggTotals == [value |-> 0, fees |-> 0]
NoPerName   == [ok |-> FALSE, val |-> {}]

AggIdle ==
    /\ apc = "idle" /\ sale_items = <<>> /\ order_totals = NoAggTotals
    /\ item_totals = {} /\ totals_per_item_result = NoPerName

ClsIdle ==
    /\ cpc = "idle" /\ summaries = <<>> /\ event_index = 0
    /\ event_specific = {} /\ cost_centers = <<>> /\ lines = <<>>
    /\ classify_result = NoRun

NoUrl == [ok |-> FALSE, val |-> <<>>]

CliIdle ==
    /\ url_result = NoUrl /\ set_calls = 0 /\ url_calls = 0 /\ last_set = 0

FilIdle ==
    /\ fpc = "idle" /\ filter = <<>> /\ parts = <<>> /\ joined = FALSE
    /\ finalized = <<>>

AuxIdle == AggIdle /\ ClsIdle /\ CliIdle /\ FilIdle

RunIdle ==
    /\ rpc = "idle" /\ division = NoDivision /\ run_result = NoRun

FanIdle ==
    /\ tpc = "idle" /\ orgs = <<>> /\ totals_result = NoTotals /\ http = {}

InitWindow ==
    /\ AuxIdle
    /\ ExpIdle /\ FanIdle /\ RunIdle
    /\ wpc = "args"
    /\ now \in NowSamples
    /\ offset \in {UtcOffsetOfHours(h) : h \in OffsetHours}
    /\ periods_ago \in 1..MaxPeriodsAgo
    /\ export_period_start = NoTime /\ period = NoPeriod
    /\ orders = <<>> /\ export_items = <<>>

(* mod.rs 53 *)
ComputeStart ==
    /\ wpc = "args"
    /\ export_period_start' = ExportPeriodStart(now, offset, periods_ago)
    /\ wpc' = "start"
    /\ UNCHANGED <<now, offset, periods_ago, period, orders, export_items,
                   expVars, fanVars, runVars, auxVars>>

(* pretix.rs 30 *)
ComputePeriod ==
    /\ wpc = "start"
    /\ period' = pretix_export_period(export_period_start, offset)
    /\ wpc' = "period"
    /\ UNCHANGED <<now, offset, periods_ago, export_period_start, orders,
                   export_items, expVars, fanVars, runVars, auxVars>>

(* pretix.rs 56-63 on the orders of one export *)
FilterExport ==
    /\ wpc = "period"
    /\ period.ok
    /\ \E os \in OrderLists(period.val, {0, offset}) :
          /\ orders' = os
          /\ export_items' = FilterOrders(os, period.val.start, period.val.end)
    /\ wpc' = "filtered"
    /\ UNCHANGED <<now, offset, periods_ago, export_period_start, period,
                   expVars, fanVars, runVars, auxVars>>

NextWindow == ComputeStart \/ ComputePeriod \/ FilterExport

SpecWindow == InitWindow /\ [][NextWindow]_vars

-----------------------------------------------------------------------------
(* Bounds and inputs of the export driver. *)
MaxPolls == 4   \* the counters of the poll loop stop counting at MaxPolls

Statuses == {StatusOk, 202, 204, 401, StatusConflict, StatusGone, 503}
Messages == {"quota exceeded", "event deleted"}
Urls     == {"/download/a", "/download/b"}

Bodies == {Body("message", m) : m \in Messages}
          \cup {Body("data", "orders"), Body("garbage", "")}

Count(n) == Min(n + 1, MaxPolls)

TerminalPcs == {"ready", "failed", "unknown", "request_error"}
PendingPcs  == {"poll", "wait", "sleep"}

(* The state of the driver's state machine. *)
DriverState ==
    CASE xpc = "run"           -> "Requested"
      [] xpc \in PendingPcs    -> "Pending"
      [] xpc = "ready"         -> "Ready"
      [] xpc = "failed"        -> "Failed"
      [] xpc = "unknown"       -> "UnknownError"
      [] xpc = "request_error" -> "RequestError"
      [] OTHER                 -> "Idle"

InitExport ==
    /\ AuxIdle
    /\ WinIdle /\ FanIdle /\ RunIdle
    /\ xpc = "run" /\ url = "" /\ gets = 0 /\ conflicts = 0 /\ slept = 0
    /\ resp = NoResp /\ result = NotReturned

(* run_exporter: the POST is answered, passes error_for_status and its     *)
(* body decodes to the download URL.                                       *)
RunExporterOk ==
    /\ xpc = "run"
    /\ \E u \in Urls : url' = u
    /\ xpc' = "poll"
    /\ UNCHANGED <<gets, conflicts, slept, resp, result, winVars, fanVars, runVars, auxVars>>

(* run_exporter: the POST fails, is answered with an error status, or its  *)
(* body does not decode; each is a reqwest::Error.                         *)
RunExporterErr ==
    /\ xpc = "run"
    /\ xpc' = "request_error"
    /\ result' = Raised(ErrRequest)
    /\ UNCHANGED <<url, gets, conflicts, slept, resp, winVars, fanVars, runVars, auxVars>>

(* wait_for_export: client.get(url).send() *)
SendGet ==
    /\ xpc = "poll"
    /\ gets' = Count(gets)
    /\ xpc' = "wait"
    /\ UNCHANGED <<url, conflicts, slept, resp, result, winVars, fanVars, runVars, auxVars>>

(* The GET is answered: the match on the status. *)
Answer ==
    /\ xpc = "wait"
    /\ \E st \in Statuses, b \in Bodies :
          LET r == Response(st, b)
              o == WaitOutcome(r)
          IN  /\ resp' = r
              /\ conflicts' = IF st = StatusConflict THEN Count(conflicts)
                              ELSE conflicts
              /\ xpc' = o.pc
              /\ result' = o.result
    /\ UNCHANGED <<url, gets, slept, winVars, fanVars, runVars, auxVars>>

(* The GET fails in transport: send().await? *)
SendFails ==
    /\ xpc = "wait"
    /\ xpc' = "request_error"
    /\ result' = Raised(ErrRequest)
    /\ resp' = NoResp
    /\ UNCHANGED <<url, gets, conflicts, slept, winVars, fanVars, runVars, auxVars>>

(* tokio::time::sleep(Duration::from_secs(1)) *)
Sleep ==
    /\ xpc = "sleep"
    /\ slept' = Min(slept + BackoffSecs, MaxPolls * BackoffSecs)
    /\ xpc' = "poll"
    /\ UNCHANGED <<url, gets, conflicts, resp, result, winVars, fanVars, runVars, auxVars>>

NextExport ==
    \/ RunExporterOk \/ RunExporterErr
    \/ SendGet \/ Answer \/ SendFails \/ Sleep

SpecExport == InitExport /\ [][NextExport]_vars

(* The runtime polls a ready future, a sleep ends, and the server answers  *)
(* every request (the premise of the claim on the retry cap).              *)
LiveExport ==
    /\ SpecExport
    /\ WF_vars(RunExporterOk \/ RunExporterErr)
    /\ WF_vars(SendGet)
    /\ WF_vars(Sleep)
    /\ WF_vars(Answer \/ SendFails)

-----------------------------------------------------------------------------
(* SpecTotals: the fan-out pretix_totals (pretix.rs 25-114).  The whole    *)
(* fan-out is one future: its organizer and event futures are polled one   *)
(* at a time, so a step runs one future from the answer it waited for to   *)
(* its next await.  The pages of list_paginated are fetched one after the  *)
(* other in one chain of awaits and are modelled as one answer.  The sleep *)
(* of the poll loop is modelled in SpecExport; here a 409 leaves the event *)
(* future polling.                                                         *)

MaxOrgs   == 2   \* organizers in the listing
MaxEvents == 2   \* events in the listing of one organizer

Slugs == {"intro", "gala"}

(* The events a listing may hold; the first has an English name. *)
EventPool ==
    {[slug |-> sl, live |-> l,
      en |-> IF sl = "intro" THEN "Introduction" ELSE ""] :
        sl \in Slugs, l \in BOOLEAN}

(* The listings of one organizer: its event slugs are distinct. *)
EventLists ==
    UNION { {f \in [1..n -> EventPool] :
                \A i, j \in 1..n : i # j => f[i].slug # f[j].slug} :
            n \in 0..MaxEvents }

(* The exports the server may return for an event, by name: one order at   *)
(* the start of the window for a product of the catalog, one order at the  *)
(* start of the window for a product missing from the catalog, and one     *)
(* order after the window for a product missing from the catalog.          *)
SampleNames == {"in_window", "unknown_item", "late_unknown"}

SampleCatalog == <<[id |-> 1, name |-> "Ticket", tax_rate |-> 21]>>

SampleOrder(utc, item) ==
    [datetime |-> OffsetDateTime(utc, 0), total |-> 1500, fees |-> <<100>>,
     ordered_items |-> <<[item |-> item, price |-> 1400]>>]

SampleExport(name, p) ==
    [items  |-> SampleCatalog,
     orders |-> CASE name = "in_window"    -> <<SampleOrder(p.start.utc, 1)>>
                  [] name = "unknown_item" -> <<SampleOrder(p.start.utc, 2)>>
                  [] name = "late_unknown" -> <<SampleOrder(p.end.utc + 1, 2)>>]

(* What a poll of the fan-out may be answered with: 409, 200 with one of   *)
(* the exports, with the bytes of a report or with bytes that are no JSON, *)
(* 410 with and without a message, and 503.                                *)
PollAnswers(json) ==
    {Response(StatusConflict, Body("garbage", "")),
     Response(StatusGone, Body("message", "event deleted")),
     Response(StatusGone, Body("garbage", "")),
     Response(503, Body("garbage", ""))}
    \cup (IF json
          THEN {Response(StatusOk, Body("export", n)) : n \in SampleNames}
               \cup {Response(StatusOk, Body("garbage", ""))}
          ELSE {Response(StatusOk, Body("data", "%PDF"))})

(* The starts pretix_totals is called with: a Monday and a Wednesday at    *)
(* 00:00, one hour east of Greenwich.                                      *)
TotalsOffset == UtcOffsetOfHours(1)
TotalsStarts ==
    {assume_offset(BaseDay + d, Midnight, TotalsOffset) : d \in {4, 6}}

InitTotals ==
    /\ AuxIdle
    /\ ExpIdle /\ RunIdle
    /\ wpc = "idle" /\ now = 0 /\ periods_ago = 0
    /\ orders = <<>> /\ export_items = <<>>
    /\ offset = TotalsOffset
    /\ export_period_start \in TotalsStarts
    /\ period = NoPeriod
    /\ tpc = "entry" /\ orgs = <<>> /\ totals_result = NoTotals /\ http = {}

OtherThanFan == <<wpc, now, offset, periods_ago, export_period_start,
                  orders, export_items, expVars, runVars, auxVars>>

(* The join fails: pretix_totals returns the error and the futures still   *)
(* running are dropped.                                                    *)
Fail(e) ==
    /\ tpc' = "err"
    /\ totals_result' = TotalsErr(e)
    /\ orgs' = Dropped(orgs)

(* After a step that left the futures as `os`: when every organizer's join *)
(* is ready, the outer join is ready and the results are merged.           *)
Settle(os) ==
    /\ orgs' = os
    /\ IF \A o \in DOMAIN os : OrgJoined(os[o])
       THEN /\ tpc' = "ok"
            /\ totals_result' = TotalsOk(MergeResults(os))
       ELSE /\ tpc' = "fanout"
            /\ UNCHANGED totals_result

(* pretix.rs 30 and 36: the window, then Organizer::list is sent. *)
TotalsEntry ==
    /\ tpc = "entry"
    /\ period' = pretix_export_period(export_period_start, offset)
    /\ IF period'.ok
       THEN /\ tpc' = "organizers"
            /\ http' = http \cup {Request("pretix", "organizers")}
            /\ UNCHANGED <<orgs, totals_result>>
       ELSE /\ tpc' = "err"
            /\ totals_result' = TotalsErr(ErrNotMonday)
            /\ UNCHANGED <<orgs, http>>
    /\ UNCHANGED OtherThanFan

(* Organizer::list answers: one future per organizer, each sends its       *)
(* Event::list.                                                            *)
OrganizersListed ==
    /\ tpc = "organizers"
    /\ \E n \in 0..MaxOrgs :
          /\ http' = http \cup {Request("pretix", "events") : o \in 1..n}
          /\ Settle([o \in 1..n |-> [slug |-> o, pc |-> "listing",
                                     events |-> <<>>]])
    /\ UNCHANGED <<period, OtherThanFan>>

(* Organizer::list fails (pretix.rs 36, `?`). *)
OrganizersFail ==
    /\ tpc = "organizers"
    /\ Fail(ErrRequest)
    /\ UNCHANGED <<http, period, OtherThanFan>>

(* Event::list of an organizer answers: the live events are kept, one      *)
(* future per kept event, polled at once (pretix.rs 39-53).                *)
EventsListed(o) ==
    /\ tpc = "fanout"
    /\ o \in DOMAIN orgs
    /\ orgs[o].pc = "listing"
    /\ \E evs \in EventLists :
          LET tasks == [i \in DOMAIN evs |-> NewTask(evs[i])]
          IN  /\ http' = http \cup
                    UNION {RunRequests(tasks[i].started) : i \in DOMAIN evs}
              /\ Settle([orgs EXCEPT ![o].pc = "joined", ![o].events = tasks])
    /\ UNCHANGED <<period, OtherThanFan>>

(* Event::list of an organizer fails (pretix.rs 40, `?`). *)
EventsFail(o) ==
    /\ tpc = "fanout"
    /\ o \in DOMAIN orgs
    /\ orgs[o].pc = "listing"
    /\ Fail(ErrRequest)
    /\ UNCHANGED <<http, period, OtherThanFan>>

(* run_exporter answers with the download URL: wait_for_export sends its   *)
(* first GET.                                                              *)
RunAnswered(o, i) ==
    /\ tpc = "fanout"
    /\ o \in DOMAIN orgs
    /\ i \in DOMAIN orgs[o].events
    /\ orgs[o].events[i].pc \in {"json_post", "pdf_post"}
    /\ LET json == orgs[o].events[i].pc = "json_post"
       IN  /\ orgs' = [orgs EXCEPT ![o].events[i].pc =
                          IF json THEN "json_get" ELSE "pdf_get"]
           /\ http' = http \cup
                 {Request("pretix", IF json THEN "poll_json" ELSE "poll_pdf")}
    /\ UNCHANGED <<tpc, totals_result, period, OtherThanFan>>

(* A request of an event future fails: in transport, by an error status of *)
(* run_exporter, or by a body that cannot be read.                         *)
RequestFails(o, i) ==
    /\ tpc = "fanout"
    /\ o \in DOMAIN orgs
    /\ i \in DOMAIN orgs[o].events
    /\ TaskPending(orgs[o].events[i])
    /\ Fail(ErrRequest)
    /\ UNCHANGED <<http, period, OtherThanFan>>

(* pretix.rs 56-101, after both exports: the summary of an event, or the   *)
(* lookup error.  `ord` is the order the HashMap of totals is iterated in. *)
EventSummary(task, name, pdf, ord) ==
    LET data_export  == SampleExport(name, period.val)
        kept         == FilterOrders(data_export.orders, period.val.start,
                                     period.val.end)
        per_name     == totals_per_item(calc_order_totals_per_sale_item(kept),
                                        data_export.items, ord)
    IN  [ok |-> per_name.ok,
         val |-> [event_name |-> EventName(task),
                  totals |-> order_export_calc_totals(kept),
                  pdf |-> pdf,
                  sale_items |-> data_export.items,
                  items |-> per_name.val]]

SummaryOrders(name) ==
    IterationOrders(Keys(calc_order_totals_per_sale_item(
        FilterOrders(SampleExport(name, period.val).orders,
                     period.val.start, period.val.end))))

(* A poll of an event future is answered. *)
PollAnswered(o, i) ==
    /\ tpc = "fanout"
    /\ o \in DOMAIN orgs
    /\ i \in DOMAIN orgs[o].events
    /\ orgs[o].events[i].pc \in {"json_get", "pdf_get"}
    /\ \E r \in PollAnswers(orgs[o].events[i].pc = "json_get") :
          LET task == orgs[o].events[i]
              b    == r.body
              out  == WaitOutcome(r).result
          IN  IF ~out.returned
              THEN \* 409: sleep, then the next GET
                   UNCHANGED <<fanVars>>
              ELSE IF ~out.ok
              THEN Fail(out.err) /\ UNCHANGED http
              ELSE IF task.pc = "json_get"
              THEN \* export_order_data: .json() of the 200 (pretix.rs 48-53),
                   \* the filter and the totals, then the PDF export is started
                   IF b.kind = "export"
                   THEN /\ orgs' = [orgs EXCEPT
                                ![o].events[i].pc = "pdf_post",
                                ![o].events[i].started = @ \cup {"pdfreport"},
                                ![o].events[i].data = b.text]
                        /\ http' = http \cup RunRequests({"pdfreport"})
                        /\ UNCHANGED <<tpc, totals_result>>
                   ELSE Fail(ErrRequest) /\ UNCHANGED http
              ELSE \* export_order_data_pdf returns the bytes (pretix.rs 69-101)
                   \E ord \in SummaryOrders(task.data) :
                      LET sm == EventSummary(task, task.data, b.text, ord)
                      IN  IF sm.ok
                          THEN /\ Settle([orgs EXCEPT
                                     ![o].events[i].pc = "done",
                                     ![o].events[i].summary = sm.val])
                               /\ UNCHANGED http
                          ELSE Fail(ErrLookup) /\ UNCHANGED http
    /\ UNCHANGED <<period, OtherThanFan>>

NextTotals ==
    \/ TotalsEntry
    \/ OrganizersListed
    \/ OrganizersFail
    \/ \E o \in 1..MaxOrgs : EventsListed(o)
    \/ \E o \in 1..MaxOrgs : EventsFail(o)
    \/ \E o \in 1..MaxOrgs, i \in 1..MaxEvents : RunAnswered(o, i)
    \/ \E o \in 1..MaxOrgs, i \in 1..MaxEvents : RequestFails(o, i)
    \/ \E o \in 1..MaxOrgs, i \in 1..MaxEvents : PollAnswered(o, i)

SpecTotals == InitTotals /\ [][NextTotals]_vars

-----------------------------------------------------------------------------
(* SpecRun: WeekelijksePlezier::execute_mode (mod.rs 26-198), with the     *)
(* fan-out it awaits.                                                      *)

RunOffset    == UtcOffsetOfHours(2)
RunDivisions == {NoDivision, SomeDivision(55861)}
(* The clock, read on a Sunday in its last second. *)
RunNows      == {(BaseDay + 3) * SecondsPerDay + SecondsPerDay - 1}

InitRun ==
    /\ AuxIdle
    /\ ExpIdle /\ FanIdle
    /\ wpc = "idle" /\ orders = <<>> /\ export_items = <<>>
    /\ now = 0
    /\ offset = RunOffset
    /\ periods_ago \in 0..MaxPeriodsAgo
    /\ export_period_start = NoTime /\ period = NoPeriod
    /\ rpc = "start"
    /\ division \in RunDivisions
    /\ run_result = NoRun

OtherThanRun == <<wpc, orders, export_items, expVars, orgs, totals_result, auxVars>>

(* mod.rs 35-45: the check of periods_ago, then the sales-entry lookup is  *)
(* sent, unless the client has no division.                                *)
RunStart ==
    /\ rpc = "start"
    /\ IF PeriodsAgoRejected(periods_ago)
       THEN /\ rpc' = "failed"
            /\ run_result' = RunErr(ErrPeriodsAgo)
            /\ UNCHANGED http
       ELSE IF ~divisioned_url(division, "/salesentry/SalesEntries").ok
       THEN /\ rpc' = "failed"
            /\ run_result' = RunErr(ErrNoDivision)
            /\ UNCHANGED http
       ELSE /\ rpc' = "sales_entry"
            /\ http' = http \cup {Request("exact", "sales_entry")}
            /\ UNCHANGED run_result
    /\ UNCHANGED <<now, offset, periods_ago, export_period_start, period,
                   tpc, division, OtherThanRun>>

(* mod.rs 45-46: the sales entry is found; the lookup of its lines is sent. *)
SalesEntryFound ==
    /\ rpc = "sales_entry"
    /\ rpc' = "sales_entry_lines"
    /\ http' = http \cup {Request("exact", "sales_entry_lines")}
    /\ UNCHANGED <<now, offset, periods_ago, export_period_start, period,
                   tpc, division, run_result, OtherThanRun>>

ExactFailsIgnored ==
    /\ rpc \in {"sales_entry", "sales_entry_lines"}
    /\ \E n \in RunNows :
          /\ now' = n
          /\ export_period_start' = ExportPeriodStart(n, offset, periods_ago)
    /\ rpc' = "totals"
    /\ tpc' = "entry"
    /\ UNCHANGED <<offset, periods_ago, period, http, division, run_result,
                   OtherThanRun>>

(* A lookup on Exact fails: transport, error status or decoding (`?`). *)
ExactFails ==
    /\ rpc \in {"sales_entry", "sales_entry_lines"}
    /\ rpc' = "failed"
    /\ run_result' = RunErr(ErrExact)
    /\ UNCHANGED <<now, offset, periods_ago, export_period_start, period,
                   tpc, http, division, OtherThanRun>>

(* The sales-entry lookup answers with no result: ExactPayload::value      *)
(* unwraps the first of none and the run panics (exact_request lib.rs 110). *)
SalesEntryMissing ==
    /\ rpc = "sales_entry"
    /\ rpc' = "panicked"
    /\ UNCHANGED <<now, offset, periods_ago, export_period_start, period,
                   tpc, http, division, run_result, OtherThanRun>>

(* mod.rs 46-60: the lines arrive; the clock is read, the start of the     *)
(* window computed and pretix_totals called.                               *)
SalesEntryLinesFound ==
    /\ rpc = "sales_entry_lines"
    /\ \E n \in RunNows :
          /\ now' = n
          /\ export_period_start' = ExportPeriodStart(n, offset, periods_ago)
    /\ rpc' = "totals"
    /\ tpc' = "entry"
    /\ UNCHANGED <<offset, periods_ago, period, http, division, run_result,
                   OtherThanRun>>

(* mod.rs 60: pretix_totals returned an error (`?`). *)
TotalsFailed ==
    /\ rpc = "totals"
    /\ tpc = "err"
    /\ rpc' = "failed"
    /\ run_result' = RunErr(totals_result.err)
    /\ UNCHANGED <<now, offset, periods_ago, export_period_start, period,
                   tpc, http, division, OtherThanRun>>

(* mod.rs 60-65: pretix_totals returned the summaries. *)
TotalsReturned ==
    /\ rpc = "totals"
    /\ tpc = "ok"
    /\ rpc' = "classify"
    /\ UNCHANGED <<now, offset, periods_ago, export_period_start, period,
                   tpc, http, division, run_result, OtherThanRun>>

NextRun ==
    \/ RunStart
    \/ SalesEntryFound
    \/ SalesEntryMissing
    \/ ExactFails
    \/ SalesEntryLinesFound
    \/ TotalsFailed
    \/ TotalsReturned
    \/ NextTotals

SpecRun == InitRun /\ [][NextRun]_vars

-----------------------------------------------------------------------------
(* SpecAggregate: the aggregation of one event's export (pretix.rs 56-87), *)
(* for every export.                                                       *)

MaxPositions == 2    \* positions of one order
MaxFees      == 2    \* fees of one order

ItemIds    == {1, 2, 9}
Prices     == {500, 1000}
FeeValues  == {100}
OrderTotal == 2000

(* The catalogs of an export: item 9 is in none; in the last, two products *)
(* carry the same display name.                                            *)
AggCatalogs ==
    { <<[id |-> 1, name |-> "Ticket", tax_rate |-> 21],
        [id |-> 2, name |-> "Drink",  tax_rate |-> 9]>>,
      <<[id |-> 1, name |-> "Ticket", tax_rate |-> 21]>>,
      <<[id |-> 1, name |-> "Ticket", tax_rate |-> 21],
        [id |-> 2, name |-> "Ticket", tax_rate |-> 9]>> }

SeqsUpTo(S, n) == UNION {[1..k -> S] : k \in 0..n}

AggOffset == UtcOffsetOfHours(1)
AggStart  == assume_offset(BaseDay + 4, Midnight, AggOffset)

(* The orders of an export: stamped at the start of the window or one      *)
(* second after its end.                                                   *)
AggOrders(p) ==
    {[datetime      |-> OffsetDateTime(t, 0),
      total         |-> OrderTotal,
      fees          |-> f,
      ordered_items |-> ps] :
        t  \in {p.start.utc, p.end.utc + 1},
        f  \in SeqsUpTo(FeeValues, MaxFees),
        ps \in SeqsUpTo([item : ItemIds, price : Prices], MaxPositions)}

InitAggregate ==
    /\ ExpIdle /\ FanIdle /\ RunIdle
    /\ wpc = "idle" /\ now = 0 /\ periods_ago = 0
    /\ offset = AggOffset
    /\ export_period_start = AggStart
    /\ period = pretix_export_period(AggStart, AggOffset)
    /\ orders \in SeqsUpTo(AggOrders(period.val), MaxOrders)
    /\ export_items = <<>>
    /\ apc = "export"
    /\ sale_items \in AggCatalogs
    /\ order_totals = NoAggTotals
    /\ item_totals = {}
    /\ totals_per_item_result = NoPerName
    /\ ClsIdle /\ CliIdle /\ FilIdle

OtherThanAgg == <<wpc, now, offset, periods_ago, export_period_start, period,
                  orders, expVars, fanVars, runVars, clsVars, cliVars, filVars>>

(* pretix.rs 56-67: the window filter and the totals. *)
FilterAndTotal ==
    /\ apc = "export"
    /\ export_items' = FilterOrders(orders, period.val.start, period.val.end)
    /\ order_totals' = order_export_calc_totals(export_items')
    /\ apc' = "totals"
    /\ UNCHANGED <<sale_items, item_totals, totals_per_item_result, OtherThanAgg>>

(* pretix.rs 78-87: the totals per item id, resolved to display names; the *)
(* HashMap of totals is iterated in some order.                            *)
ResolveItems ==
    /\ apc = "totals"
    /\ item_totals' =
          calc_order_totals_per_sale_item(ResolvedOrders(orders, export_items))
    /\ \E ord \in IterationOrders(Keys(item_totals')) :
          totals_per_item_result' = totals_per_item(item_totals', sale_items, ord)
    /\ apc' = IF totals_per_item_result'.ok THEN "resolved" ELSE "failed"
    /\ UNCHANGED <<export_items, sale_items, order_totals, OtherThanAgg>>

NextAggregate ==
    \/ FilterAndTotal
    \/ ResolveItems

SpecAggregate == InitAggregate /\ [][NextAggregate]_vars

-----------------------------------------------------------------------------
(* SpecClassify: the loop of execute_mode over the summaries               *)
(* (mod.rs 65-197), for every configuration.                               *)

MaxClsEvents == 2    \* summaries returned by pretix_totals

ClsEventIds == <<"intro", "gala", "bbq">>

ClsCatalog ==
    <<[id |-> 1, name |-> "Ticket",   tax_rate |-> 21],
      [id |-> 2, name |-> "Drink",    tax_rate |-> 9],
      [id |-> 3, name |-> "Donation", tax_rate |-> 0]>>

(* config.exact.vat_codes: no code for 0 %. *)
VatCodes == <<[code |-> "2", percentage |-> 21], [code |-> "1", percentage |-> 9]>>

(* summary.items of an event *)
ClsItems ==
    { {},
      {[k |-> "Ticket", v |-> 1000]},
      {[k |-> "Ticket", v |-> 1000], [k |-> "Drink", v |-> 500]},
      {[k |-> "Ticket", v |-> 1000], [k |-> "Donation", v |-> 200]},
      {[k |-> "Ticket", v |-> 1000], [k |-> "Drink", v |-> 0]} }

ClsSummary(event_key, items) ==
    [event_name |-> event_key,
     totals     |-> [value |-> 1700, fees |-> 150],
     sale_items |-> ClsCatalog,
     items      |-> items]

(* cost_centers_per_product, as written in the configuration file: none,   *)
(* one per product, two patterns matching "Ticket", a pattern that does    *)
(* not compile.                                                            *)
CostCenterMaps ==
    { <<>>,
      <<[k |-> "Ticket", v |-> "INTRO"], [k |-> "Drink", v |-> "BAR"]>>,
      <<[k |-> ".*", v |-> "ALG"], [k |-> "Ticket", v |-> "INTRO"]>>,
      <<[k |-> "(", v |-> "ALG"]>> }

(* The HashMap the entries of the file are deserialized into               *)
(* (config.rs 102).                                                        *)
CostCentersPerProduct(event_config) ==
    CollectMap(event_config.cost_centers_per_product)

ClsConfigs ==
    [split_per_product        : BOOLEAN,
     cost_centers_per_product : CostCenterMaps,
     gl_account               : {"8000"},
     ignore_products          : {<<>>, <<"Donation">>},
     vat_code                 : {None, Some("21")}]

EventKeys(n) == {ClsEventIds[i] : i \in 1..n}

InitClassify ==
    /\ ExpIdle /\ FanIdle /\ RunIdle /\ WinIdle /\ AggIdle /\ CliIdle
    /\ FilIdle
    /\ cpc = "next"
    /\ \E n \in 0..MaxClsEvents :
          /\ \E ord \in IterationOrders(EventKeys(n)), it \in [EventKeys(n) -> ClsItems] :
                summaries = [i \in 1..n |->
                               [k |-> ord[i], v |-> ClsSummary(ord[i], it[ord[i]])]]
          /\ \E configured \in SUBSET EventKeys(n), c \in [EventKeys(n) -> ClsConfigs] :
                event_specific = {[k |-> e, v |-> c[e]] : e \in configured}
    /\ event_index = 0
    /\ cost_centers = <<>>
    /\ lines = <<>>
    /\ classify_result = NoRun

OtherThanCls == <<winVars, expVars, fanVars, runVars, aggVars, cliVars,
                  filVars>>

(* mod.rs 65-95: the next summary, if any; its configuration is looked up  *)
(* and the lookups of its cost centers are sent (with no cost center       *)
(* configured, the lookup of the GL account).  mod.rs 197 after the last.  *)
LoopHead ==
    /\ cpc = "next"
    /\ IF event_index = Len(summaries)
       THEN /\ cpc' = "done"
            /\ classify_result' = RunOk
            /\ UNCHANGED event_index
       ELSE LET event_key == summaries[event_index + 1].k
            IN  /\ event_index' = event_index + 1
                /\ IF event_key \notin Keys(event_specific)
                   THEN /\ cpc' = "failed"
                        /\ classify_result' = RunErr(ClsErr("NoEventConfig", event_key))
                   ELSE /\ cpc' = IF CostCentersPerProduct(
                                        Get(event_specific, event_key)) = {}
                                  THEN "gl_account" ELSE "cost_centers"
                        /\ UNCHANGED classify_result
    /\ cost_centers' = <<>>
    /\ UNCHANGED <<summaries, event_specific, lines, OtherThanCls>>

EventKey    == summaries[event_index].k
Summary     == summaries[event_index].v
EventConfig == Get(event_specific, EventKey)

(* mod.rs 85-99: every lookup of a cost center answered; the patterns are  *)
(* compiled; the Vec holds them in the order the HashMap was iterated.     *)
(* Then the lookup of the GL account is sent.                              *)
CostCentersAnswered ==
    /\ cpc = "cost_centers"
    /\ LET m == CostCentersPerProduct(EventConfig)
       IN  IF \E e \in m : ~Compiles(e.k)
           THEN /\ cpc' = "failed"
                /\ classify_result' = RunErr(ClsErr("Regex", ""))
                /\ UNCHANGED cost_centers
           ELSE /\ \E ord \in IterationOrders(Keys(m)) :
                      cost_centers' = [i \in DOMAIN ord |->
                                         [pattern |-> ord[i], code |-> Get(m, ord[i])]]
                /\ cpc' = "gl_account"
                /\ UNCHANGED classify_result
    /\ UNCHANGED <<summaries, event_index, event_specific, lines, OtherThanCls>>

(* A lookup on Exact fails: a cost center (mod.rs 88) or the GL account    *)
(* (mod.rs 99).                                                            *)
LookupFails ==
    /\ cpc \in {"cost_centers", "gl_account"}
    /\ cpc' = "failed"
    /\ classify_result' = RunErr(ErrExact)
    /\ UNCHANGED <<summaries, event_index, event_specific, cost_centers, lines,
                   OtherThanCls>>

(* mod.rs 98-192: the GL account answered; the event is classified, its    *)
(* lines logged one by one until an error, if any.                         *)
GlAccountAnswered ==
    /\ cpc = "gl_account"
    /\ \E ord \in IterationOrders(Keys(Summary.items)) :
          LET res == ClassifyEvent(EventKey, Summary, EventConfig, VatCodes,
                                   cost_centers, ord)
          IN  /\ lines' = lines \o res.lines
              /\ IF res.ok
                 THEN cpc' = "next" /\ UNCHANGED classify_result
                 ELSE cpc' = "failed" /\ classify_result' = RunErr(res.err)
    /\ UNCHANGED <<summaries, event_index, event_specific, cost_centers,
                   OtherThanCls>>

NextClassify ==
    \/ LoopHead
    \/ CostCentersAnswered
    \/ LookupFails
    \/ GlAccountAnswered

SpecClassify == InitClassify /\ [][NextClassify]_vars

-----------------------------------------------------------------------------
(* SpecClient: set_division and divisioned_url called on one ExactClient   *)
(* in any order (exact_request lib.rs 29-81), and a lookup that sends the  *)
(* URL (api/sales_entry.rs 15-20).                                         *)

MaxCalls == 3    \* calls of each kind on the client

Divisions == {55861, 7}
Paths     == {"/salesentry/SalesEntries", "/hrm/Costcenters"}

InitClient ==
    /\ ExpIdle /\ WinIdle /\ AggIdle /\ ClsIdle /\ FilIdle
    /\ tpc = "idle" /\ orgs = <<>> /\ totals_result = NoTotals
    /\ rpc = "idle" /\ run_result = NoRun
    /\ division = NoDivision
    /\ http = {}
    /\ url_result = NoUrl
    /\ set_calls = 0 /\ url_calls = 0 /\ last_set = 0

OtherThanCli == <<winVars, expVars, aggVars, clsVars, filVars, tpc, orgs,
                  totals_result, rpc, run_result>>

SetDivision ==
    /\ set_calls < MaxCalls
    /\ \E d \in Divisions :
          /\ division' = set_division(division, d)
          /\ last_set' = d
    /\ set_calls' = set_calls + 1
    /\ UNCHANGED <<url_result, url_calls, http, OtherThanCli>>

DivisionedUrl ==
    /\ url_calls < MaxCalls
    /\ \E path \in Paths : url_result' = divisioned_url(division, path)
    /\ url_calls' = url_calls + 1
    /\ UNCHANGED <<division, set_calls, last_set, http, OtherThanCli>>

(* A lookup: `client.get(client.divisioned_url(..)?).send()`. *)
Lookup ==
    /\ url_calls < MaxCalls
    /\ \E path \in Paths :
          /\ url_result' = divisioned_url(division, path)
          /\ http' = IF url_result'.ok
                     THEN http \cup {Request("exact", url_result'.val)}
                     ELSE http
    /\ url_calls' = url_calls + 1
    /\ UNCHANGED <<division, set_calls, last_set, OtherThanCli>>

NextClient ==
    \/ SetDivision
    \/ DivisionedUrl
    \/ Lookup

SpecClient == InitClient /\ [][NextClient]_vars

-----------------------------------------------------------------------------
(* SpecProcess: a run of the program from the construction of the client   *)
(* of the bookkeeping platform.  ExactClient::new leaves the division      *)
(* unset (exact_request lib.rs 49); the current-user lookup is             *)
(* api::me::accounting_division (me.rs 5-23), which needs no division.     *)
(* The caller that hands the answer of the lookup to set_division and then *)
(* calls execute_mode is not part of the sources at hand and follows the   *)
(* specification: "division is resolved once at startup via a current     *)
(* user call and cached for the process lifetime".                         *)

InitProcess ==
    /\ AuxIdle
    /\ ExpIdle /\ FanIdle
    /\ wpc = "idle" /\ orders = <<>> /\ export_items = <<>>
    /\ now = 0
    /\ offset = RunOffset
    /\ periods_ago \in 0..MaxPeriodsAgo
    /\ export_period_start = NoTime /\ period = NoPeriod
    /\ rpc = "boot"
    /\ division = NoDivision
    /\ run_result = NoRun

OtherThanBoot ==
    <<winVars, expVars, tpc, orgs, totals_result, aggVars, clsVars, filVars,
      url_result, url_calls>>

(* accounting_division: the request of the current user is sent *)
CurrentUser ==
    /\ rpc = "boot"
    /\ http' = http \cup {Request("exact", "me")}
    /\ rpc' = "me"
    /\ UNCHANGED <<division, run_result, set_calls, last_set, OtherThanBoot>>

(* accounting_division fails: transport, error status or decoding *)
CurrentUserFails ==
    /\ rpc = "me"
    /\ rpc' = "failed"
    /\ run_result' = RunErr(ErrExact)
    /\ UNCHANGED <<division, http, set_calls, last_set, OtherThanBoot>>

(* the answer of the lookup is handed to set_division, and execute_mode    *)
(* is called                                                               *)
DivisionResolved ==
    /\ rpc = "me"
    /\ \E d \in Divisions :
          /\ division' = set_division(division, d)
          /\ last_set' = d
    /\ set_calls' = set_calls + 1
    /\ rpc' = "start"
    /\ UNCHANGED <<run_result, http, OtherThanBoot>>

NextProcess ==
    \/ CurrentUser
    \/ CurrentUserFails
    \/ DivisionResolved
    \/ NextRun

SpecProcess == InitProcess /\ [][NextProcess]_vars

-----------------------------------------------------------------------------
(* SpecFilter: a Filter built by new, then and, or, join_and, join_or, and *)
(* finalized, for every key, operation and value.                          *)

MaxTextLen == 1    \* characters of a key and of a value
MaxPushes  == 1    \* calls of and, or, join_and, join_or on one filter

KeyChars   == {"F", "("}
ValueChars == {"b", ")"}

Keys_   == SeqsUpTo(KeyChars, MaxTextLen)
Values_ == SeqsUpTo(ValueChars, MaxTextLen)

Part(conn, key, op, value) ==
    [conn |-> conn, key |-> key, op |-> op, value |-> value]

InitFilter ==
    /\ ExpIdle /\ FanIdle /\ RunIdle /\ WinIdle /\ AggIdle /\ ClsIdle /\ CliIdle
    /\ fpc = "none" /\ filter = <<>> /\ parts = <<>> /\ joined = FALSE
    /\ finalized = <<>>

OtherThanFil == <<winVars, expVars, fanVars, runVars, aggVars, clsVars, cliVars>>

New ==
    /\ fpc = "none"
    /\ \E key \in Keys_, value \in Values_, op \in FilterOps :
          /\ filter' = Filter_new(key, Str(value), op)
          /\ parts' = <<Part("", key, op, value)>>
    /\ fpc' = "built"
    /\ UNCHANGED <<joined, finalized, OtherThanFil>>

And ==
    /\ fpc = "built" /\ Len(parts) <= MaxPushes
    /\ \E key \in Keys_, value \in Values_, op \in FilterOps :
          /\ filter' = Filter_and(filter, key, Str(value), op)
          /\ parts' = Append(parts, Part("and", key, op, value))
    /\ UNCHANGED <<fpc, joined, finalized, OtherThanFil>>

Or ==
    /\ fpc = "built" /\ Len(parts) <= MaxPushes
    /\ \E key \in Keys_, value \in Values_, op \in FilterOps :
          /\ filter' = Filter_or(filter, key, Str(value), op)
          /\ parts' = Append(parts, Part("or", key, op, value))
    /\ UNCHANGED <<fpc, joined, finalized, OtherThanFil>>

(* join_and and join_or with another filter fresh from Filter::new *)
Join ==
    /\ fpc = "built" /\ Len(parts) <= MaxPushes
    /\ \E key \in Keys_, value \in Values_, op \in FilterOps,
          name \in {<<"a", "n", "d">>, <<"o", "r">>} :
          /\ filter' = join(filter, Filter_new(key, Str(value), op), name)
          /\ parts' = Append(parts, Part("join", key, op, value))
    /\ joined' = TRUE
    /\ UNCHANGED <<fpc, finalized, OtherThanFil>>

Finalize ==
    /\ fpc = "built"
    /\ finalized' = finalize(filter)
    /\ fpc' = "finalized"
    /\ UNCHANGED <<filter, parts, joined, OtherThanFil>>

NextFilter ==
    \/ New
    \/ And
    \/ Or
    \/ Join
    \/ Finalize

SpecFilter == InitFilter /\ [][NextFilter]_vars

-----------------------------------------------------------------------------
(* SpecBuilder: every sequence of Filter::new, and, or, function, join_and *)
(* and join_or of at most MaxOps calls after new, then finalize.  The      *)
(* first comparison takes a String, a Guid or a reference to one of them,  *)
(* as get_sales_entry_lines hands &Guid to Filter::new.  parts is the log  *)
(* of the calls: the name of the call, the text of the filter after it,    *)
(* the comparison or the other filter it was given, and the value.         *)

MaxOps == 3    \* calls on one filter after Filter::new

EntryID == <<"E", "n", "t", "r", "y", "I", "D">>

BuilderKeys   == {<<"F">>, EntryID}
BuilderOps    == {"Equals", "NotEqual"}
GuidTexts     == {<<"g">>}
PushValues    == {Str(<<"b">>), Str(<<")">>)}
FirstValues   ==
    PushValues \cup {Guid_new(g) : g \in GuidTexts}
               \cup {RefTo(Guid_new(g)) : g \in GuidTexts}
               \cup {RefTo(Str(<<"b">>))}

(* the filters handed to join_and and join_or: fresh from Filter::new,     *)
(* extended by and, or themselves the result of a join                     *)
Plain(value) == Filter_new(<<"F">>, value, "Equals")
Others ==
    {Plain(v) : v \in PushValues}
        \cup {Filter_and(Plain(Str(<<"b">>)), <<"F">>, Str(<<"b">>), "NotEqual"),
              join_or(Plain(Str(<<"b">>)), Plain(Str(<<"b">>)))}

Call(name, text, arg, value) ==
    [name |-> name, text |-> text, arg |-> arg, value |-> value]

(* the filter sent by get_sales_entry_lines for an entry id *)
get_sales_entry_lines(entry_id) ==
    finalize(Filter_new(EntryID, RefTo(entry_id), "Equals"))

InitBuilder ==
    /\ ExpIdle /\ FanIdle /\ RunIdle /\ WinIdle /\ AggIdle /\ ClsIdle /\ CliIdle
    /\ fpc = "none" /\ filter = <<>> /\ parts = <<>> /\ joined = FALSE
    /\ finalized = <<>>

BuilderNew ==
    /\ fpc = "none"
    /\ \E key \in BuilderKeys, value \in FirstValues, op \in BuilderOps :
          /\ filter' = Filter_new(key, value, op)
          /\ parts' = <<Call("new", filter', format_filter_string(key, value, op),
                             value)>>
    /\ fpc' = "built"
    /\ UNCHANGED <<joined, finalized, OtherThanFil>>

BuilderAnd ==
    /\ fpc = "built" /\ Len(parts) <= MaxOps
    /\ \E value \in PushValues :
          /\ filter' = Filter_and(filter, <<"F">>, value, "Equals")
          /\ parts' = Append(parts,
                 Call("and", filter',
                      format_filter_string(<<"F">>, value, "Equals"), value))
    /\ UNCHANGED <<fpc, joined, finalized, OtherThanFil>>

BuilderOr ==
    /\ fpc = "built" /\ Len(parts) <= MaxOps
    /\ \E value \in PushValues :
          /\ filter' = Filter_or(filter, <<"F">>, value, "Equals")
          /\ parts' = Append(parts,
                 Call("or", filter',
                      format_filter_string(<<"F">>, value, "Equals"), value))
    /\ UNCHANGED <<fpc, joined, finalized, OtherThanFil>>

BuilderFunction ==
    /\ fpc = "built" /\ Len(parts) <= MaxOps
    /\ \E f \in FilterFunctions, value \in PushValues :
          /\ filter' = Filter_function(filter, <<"F">>, f, <<"x">>, "Equals", value)
          /\ parts' = Append(parts,
                 Call("function", filter',
                      format_filter_string(
                          FilterFunction_apply(f, <<"x">>, <<"F">>), value, "Equals"),
                      value))
    /\ UNCHANGED <<fpc, joined, finalized, OtherThanFil>>

BuilderJoinAnd ==
    /\ fpc = "built" /\ Len(parts) <= MaxOps
    /\ \E other \in Others :
          /\ filter' = join_and(filter, other)
          /\ parts' = Append(parts, Call("join_and", filter', other, Str(<<>>)))
    /\ joined' = TRUE
    /\ UNCHANGED <<fpc, finalized, OtherThanFil>>

BuilderJoinOr ==
    /\ fpc = "built" /\ Len(parts) <= MaxOps
    /\ \E other \in Others :
          /\ filter' = join_or(filter, other)
          /\ parts' = Append(parts, Call("join_or", filter', other, Str(<<>>)))
    /\ joined' = TRUE
    /\ UNCHANGED <<fpc, finalized, OtherThanFil>>

BuilderFinalize ==
    /\ fpc = "built"
    /\ finalized' = finalize(filter)
    /\ fpc' = "finalized"
    /\ UNCHANGED <<filter, parts, joined, OtherThanFil>>

NextBuilder ==
    \/ BuilderNew
    \/ BuilderAnd
    \/ BuilderOr
    \/ BuilderFunction
    \/ BuilderJoinAnd
    \/ BuilderJoinOr
    \/ BuilderFinalize

SpecBuilder == InitBuilder /\ [][NextBuilder]_vars

-----------------------------------------------------------------------------
(* Claims on the fan-out. *)

Tasks == {<<o, i>> \in (1..MaxOrgs) \X (1..MaxEvents) :
            o \in DOMAIN orgs /\ i \in DOMAIN orgs[o].events}
Task(t) == orgs[t[1]].events[t[2]]

LiveTasks == {t \in Tasks : Task(t).live}

DistinctLiveIds ==
    \A t, u \in LiveTasks : t # u => Task(t).slug # Task(u).slug

(* C5: the fan-out is all-or-nothing over the live events.  No export is   *)
(* started and no summary built for an event that is not live.  When the   *)
(* fan-out succeeds every listing succeeded, every live event has its      *)
(* summary, and the keys of the returned map are the ids of the live       *)
(* events, one entry per live event when the ids are distinct.  When it    *)
(* fails it returns an error and no summary.  Nothing is returned before.  *)
C5_AllOrNothing ==
    /\ \A t \in Tasks :
          /\ ~Task(t).live => /\ Task(t).pc = "skipped"
                              /\ Task(t).started = {}
                              /\ Task(t).summary = NoSummary
          /\ Task(t).live => Task(t).pc # "skipped"
    /\ tpc = "ok" =>
          /\ totals_result.returned /\ totals_result.ok
          /\ \A o \in DOMAIN orgs : orgs[o].pc = "joined"
          /\ \A t \in LiveTasks :
                /\ Task(t).pc = "done"
                /\ Task(t).started = {"json", "pdfreport"}
                /\ Task(t).data \in {"in_window", "late_unknown"}
          /\ Keys(totals_result.val) = {Task(t).slug : t \in LiveTasks}
          /\ DistinctLiveIds =>
                /\ Cardinality(totals_result.val) = Cardinality(LiveTasks)
                /\ \A t \in LiveTasks :
                      Get(totals_result.val, Task(t).slug) = Task(t).summary
    /\ tpc = "err" =>
          /\ totals_result.returned /\ ~totals_result.ok
          /\ totals_result.val = {}
          /\ totals_result.err # NoError
    /\ tpc \in {"entry", "organizers", "fanout"} => ~totals_result.returned

(* C5 witness: two organizers, a live event each with distinct ids, an     *)
(* event that is not live beside one of them, and the map returned.        *)
C5_Witness ==
    /\ tpc = "ok"
    /\ Len(orgs) = 2
    /\ Cardinality(LiveTasks) = 2
    /\ \E t \in Tasks : ~Task(t).live
    /\ Keys(totals_result.val) = {"intro", "gala"}

(* C5 witness of the failure: an event whose order in the window names a   *)
(* product missing from the catalog fails the fan-out while another event  *)
(* was already summarised.                                                 *)
C5_WitnessFailure ==
    /\ tpc = "err"
    /\ totals_result.err = ErrLookup
    /\ totals_result.val = {}

(* C6 as stated: the PDF export of an event does not wait for its JSON     *)
(* export; while the JSON export is pending the PDF export has been        *)
(* started as well.                                                        *)
C6_ExportsOfEventOverlap ==
    \A t \in Tasks :
        Task(t).pc \in {"json_post", "json_get"} =>
            "pdfreport" \in Task(t).started

(* C6 amended: the two exports of one event run one after the other: the   *)
(* PDF export is started only after the JSON export of the event returned  *)
(* Ready and its body was decoded, so the two are never pending together;  *)
(* exports of different events are pending at the same time.               *)
C6_PdfAfterJson ==
    \A t \in Tasks :
        /\ Task(t).pc \in {"json_post", "json_get"} =>
              /\ Task(t).started = {"json"}
              /\ Task(t).data = ""
        /\ "pdfreport" \in Task(t).started =>
              /\ Task(t).pc \in {"pdf_post", "pdf_get", "done"}
              /\ Task(t).data \in SampleNames

(* C6 witness: the PDF export of one event is polled while the JSON export *)
(* of another event of the same organizer is polled.                       *)
C6_Witness ==
    \E t, u \in Tasks :
        /\ t[1] = u[1]
        /\ Task(t).pc = "pdf_get"
        /\ Task(t).data = "in_window"
        /\ Task(u).pc = "json_get"

(* the live events that share the id of another live event, and the last  *)
(* of them in the order of the listings                                    *)
Colliding(t, u) == t[1] < u[1] /\ Task(t).slug = Task(u).slug
LastListed(u) ==
    \A w \in LiveTasks : Task(w).slug = Task(u).slug => w[1] <= u[1]

(* C27: when live events of different organizers share an id and every     *)
(* branch succeeded, pretix_totals succeeds with exactly one entry for the *)
(* id, and that entry is the summary of the event of the organizer listed  *)
(* last, whichever order the branches completed in.                        *)
C27_CollisionLastListed ==
    tpc = "ok" =>
        \A t, u \in LiveTasks :
            (Colliding(t, u) /\ LastListed(u)) =>
                /\ totals_result.returned /\ totals_result.ok
                /\ Cardinality({e \in totals_result.val : e.k = Task(u).slug}) = 1
                /\ Get(totals_result.val, Task(u).slug) = Task(u).summary

(* C27 witness: two organizers list a live event of the same id, the two   *)
(* summaries differ, and the map holds the second.                         *)
C27_Witness ==
    /\ tpc = "ok"
    /\ \E t, u \in LiveTasks :
          /\ Colliding(t, u)
          /\ Task(t).summary # Task(u).summary
          /\ Get(totals_result.val, Task(u).slug) = Task(u).summary

(* The fan-out alone: handed a start that is not a Monday, pretix_totals   *)
(* fails with the non-Monday error and has sent no request.                *)
FanoutRejectsNonMonday ==
    weekday(export_period_start) # Monday =>
        /\ http = {}
        /\ tpc \in {"entry", "err"}
        /\ tpc = "err" => totals_result = TotalsErr(ErrNotMonday)

-----------------------------------------------------------------------------
(* Claims on the aggregation. *)

RECURSIVE SumOver(_, _)
SumOver(f, S) ==
    IF S = {} THEN 0
    ELSE LET x == CHOOSE x \in S : TRUE IN f[x] + SumOver(f, S \ {x})

(* The orders of the export inside the window, by their place. *)
InWindow ==
    {i \in DOMAIN orders :
        /\ orders[i].datetime.utc >= period.val.start.utc
        /\ orders[i].datetime.utc <= period.val.end.utc}

(* The positions of the orders inside the window: <<order, position>>. *)
WindowPositions ==
    {<<i, j>> \in (1..MaxOrders + 1) \X (1..MaxPositions + 1) :
        i \in InWindow /\ j \in DOMAIN orders[i].ordered_items}

PositionsOf(id) ==
    {q \in WindowPositions : orders[q[1]].ordered_items[q[2]].item = id}

Aggregated == apc \in {"totals", "resolved", "failed"}

(* C11: fees is the sum of all fee values of the orders in the window,     *)
(* value the sum of their totals minus that sum, so value + fees is the    *)
(* sum of the totals; no retained order gives 0 and 0; orders outside the  *)
(* window contribute to neither.                                           *)
C11_TotalsExact ==
    Aggregated =>
        LET sum_total == SumOver([i \in InWindow |-> orders[i].total], InWindow)
            sum_fees  == SumOver([i \in InWindow |->
                            SumOver(orders[i].fees, DOMAIN orders[i].fees)],
                                 InWindow)
        IN  /\ order_totals.fees = sum_fees
            /\ order_totals.value = sum_total - sum_fees
            /\ order_totals.value + order_totals.fees = sum_total
            /\ InWindow = {} => order_totals = [value |-> 0, fees |-> 0]

(* C11 witness: an order in the window with two fees and an order with a   *)
(* fee outside it, aggregated.                                             *)
C11_Witness ==
    /\ Aggregated
    /\ Len(orders) = MaxOrders
    /\ Cardinality(InWindow) = 1
    /\ \E i \in InWindow : Len(orders[i].fees) = 2
    /\ \E i \in DOMAIN orders : i \notin InWindow /\ orders[i].fees # <<>>
    /\ order_totals = [value |-> OrderTotal - 200, fees |-> 200]

(* C12 as stated: the total of a product is the sum of the prices of every *)
(* position with its id in the retained orders, each position counted,     *)
(* and a product id is a key iff a retained position has it.               *)
C12_EveryPositionCounted ==
    apc \in {"resolved", "failed"} =>
        /\ Keys(item_totals) =
              {orders[q[1]].ordered_items[q[2]].item : q \in WindowPositions}
        /\ \A e \in item_totals :
              e.v = SumOver([q \in PositionsOf(e.k) |->
                               orders[q[1]].ordered_items[q[2]].price],
                            PositionsOf(e.k))

(* C13: the resolution fails with a lookup error iff some position of a    *)
(* retained order has a product id that is not in the catalog of the       *)
(* export; when it succeeds every key of the totals per name is the name   *)
(* of a sale item of the catalog whose id a retained position has.         *)
C13_LookupFailsIffUnknown ==
    apc \in {"resolved", "failed"} =>
        LET ids     == {orders[q[1]].ordered_items[q[2]].item :
                            q \in WindowPositions}
            known   == {sale_items[i].id : i \in DOMAIN sale_items}
        IN  /\ apc = "failed" <=> ~(ids \subseteq known)
            /\ apc = "failed" => totals_per_item_result = [ok |-> FALSE, val |-> {}]
            /\ apc = "resolved" =>
                  /\ totals_per_item_result.ok
                  /\ Keys(totals_per_item_result.val) =
                        {sale_items[i].name :
                            i \in {i \in DOMAIN sale_items : sale_items[i].id \in ids}}

(* C13 witness: an unknown product outside the window beside two known     *)
(* products inside it, resolved.                                           *)
C13_Witness ==
    /\ apc = "resolved"
    /\ Keys(totals_per_item_result.val) = {"Ticket", "Drink"}
    /\ \E i \in DOMAIN orders :
          /\ i \notin InWindow
          /\ \E j \in DOMAIN orders[i].ordered_items :
                orders[i].ordered_items[j].item = 9

(* C13 witness of the failure: a retained position names item 9. *)
C13_WitnessFailure ==
    /\ apc = "failed"
    /\ \E q \in WindowPositions : orders[q[1]].ordered_items[q[2]].item = 9

(* the sum of the values of a map *)
SumValues(m) == SumOver([e \in m |-> e.v], m)

(* C29 as stated: the values of the totals per display name sum to the sum *)
(* of the totals per product id of the retained orders, also when two      *)
(* product ids of the catalog carry the same display name.                 *)
C29_NoValueLost ==
    apc = "resolved" =>
        SumValues(totals_per_item_result.val) = SumValues(item_totals)

(* With display names that differ between the products sold, the sums are  *)
(* equal.                                                                  *)
NoValueLostDistinctNames ==
    (/\ apc = "resolved"
     /\ \A a, b \in Keys(item_totals) :
           a # b => FindSaleItem(sale_items, a).name # FindSaleItem(sale_items, b).name) =>
        SumValues(totals_per_item_result.val) = SumValues(item_totals)

-----------------------------------------------------------------------------
(* Claims on the classifier. *)

ConfigOf(i) == Get(event_specific, summaries[i].k)

(* The events the loop has passed, and the lines logged for an event. *)
Processed(i) == i < event_index \/ (i = event_index /\ cpc \in {"next", "done"})

LinesOf(i) ==
    LET idx == {j \in DOMAIN lines : lines[j].event = summaries[i].k}
    IN  [n \in 1..Cardinality(idx) |->
            lines[CHOOSE j \in idx : Cardinality({h \in idx : h <= j}) = n]]

FailedInClassifier(i) ==
    /\ i = event_index /\ cpc = "failed"
    /\ classify_result.err.kind \notin {"Exact", "NoEventConfig"}
    /\ ~(\E e \in CostCentersPerProduct(ConfigOf(i)) : ~Compiles(e.k))

(* C14: an event with split_per_product = false whose lookups succeeded    *)
(* gets exactly two lines, first the net total with the VAT code of the    *)
(* event and then the fees on the bookkeeping GL account, whatever its     *)
(* products; with no VAT code it fails and gets no line.                   *)
C14_CombinedTwoLines ==
    \A i \in 1..event_index :
        (summaries[i].k \in Keys(event_specific) /\ ~ConfigOf(i).split_per_product) =>
            LET s == summaries[i].v
                c == ConfigOf(i)
            IN  /\ Processed(i) =>
                      /\ c.vat_code.some
                      /\ Len(LinesOf(i)) = 2
                      /\ LinesOf(i)[1] =
                            Line(summaries[i].k, "", c.gl_account,
                                 "Pretix " \o s.event_name, "", c.vat_code.v,
                                 s.totals.value)
                      /\ LinesOf(i)[2] =
                            Line(summaries[i].k, "", BookkeepingGl,
                                 "Pretix " \o s.event_name \o " | Transactiekosten",
                                 "", "", s.totals.fees)
                /\ ~Processed(i) => LinesOf(i) = <<>>
                /\ FailedInClassifier(i) =>
                      /\ ~c.vat_code.some
                      /\ classify_result.err.kind = "MissingVatCode"
                      /\ classify_result.err.reason = summaries[i].k

(* C14 witness: a combined event with two products, passed. *)
C14_Witness ==
    \E i \in 1..event_index :
        /\ Processed(i)
        /\ summaries[i].k \in Keys(event_specific)
        /\ ~ConfigOf(i).split_per_product
        /\ Cardinality(summaries[i].v.items) = 2
        /\ Len(LinesOf(i)) = 2

(* C14 witness of the failure: a combined event without VAT code. *)
C14_WitnessFailure ==
    /\ cpc = "failed"
    /\ classify_result.err.kind = "MissingVatCode"
    /\ lines = <<>>

NotIgnored(i) ==
    {k \in Keys(summaries[i].v.items) : ~is_ignored(ConfigOf(i), k)}

Classifies(i, k) ==
    /\ \E e \in CostCentersPerProduct(ConfigOf(i)) : is_match(e.k, k)
    /\ \E j \in DOMAIN VatCodes, h \in DOMAIN ClsCatalog :
          ClsCatalog[h].name = k /\ VatCodes[j].percentage = ClsCatalog[h].tax_rate

ItemLines(i, k) == {j \in DOMAIN LinesOf(i) : LinesOf(i)[j].item = k}

(* C15: a split event whose products that match no ignore pattern all      *)
(* classify gets exactly one line per such product and exactly one line    *)
(* of fees, the last; a product matching an ignore pattern gets no line    *)
(* and raises no error, whatever its cost center and VAT rate.             *)
C15_SplitOneLinePerProduct ==
    \A i \in 1..event_index :
        (summaries[i].k \in Keys(event_specific) /\ ConfigOf(i).split_per_product) =>
            /\ Processed(i) =>
                  /\ \A k \in NotIgnored(i) : Cardinality(ItemLines(i, k)) = 1
                  /\ \A k \in Keys(summaries[i].v.items) \ NotIgnored(i) :
                        ItemLines(i, k) = {}
                  /\ Len(LinesOf(i)) = Cardinality(NotIgnored(i)) + 1
                  /\ LinesOf(i)[Len(LinesOf(i))] =
                        FeeLine(summaries[i].k, summaries[i].v)
            /\ FailedInClassifier(i) =>
                  \E k \in NotIgnored(i) : ~Classifies(i, k)

(* C15 witness: a split event with "Ticket" and the ignored "Donation",    *)
(* which has no VAT code and, here, no cost center; passed with two lines. *)
C15_Witness ==
    \E i \in 1..event_index :
        /\ Processed(i)
        /\ summaries[i].k \in Keys(event_specific)
        /\ ConfigOf(i).split_per_product
        /\ Keys(summaries[i].v.items) = {"Ticket", "Donation"}
        /\ NotIgnored(i) = {"Ticket"}
        /\ ~Classifies(i, "Donation")
        /\ ~(\E e \in CostCentersPerProduct(ConfigOf(i)) : is_match(e.k, "Donation"))
        /\ Len(LinesOf(i)) = 2

(* The cost center of the first pattern, in the order of the               *)
(* configuration file, that matches the product.                           *)
FirstConfigured(i, k) ==
    LET cc == ConfigOf(i).cost_centers_per_product
    IN  cc[CHOOSE j \in DOMAIN cc :
              /\ is_match(cc[j].k, k)
              /\ \A h \in 1..(j - 1) : ~is_match(cc[h].k, k)].v

(* C16 as stated: the cost center of a product line is that of the first   *)
(* matching pattern in the order the configuration map was filled.         *)
C16_FirstInsertedWins ==
    \A j \in DOMAIN lines :
        lines[j].item # "" =>
            \A i \in 1..event_index :
                summaries[i].k = lines[j].event =>
                    lines[j].cost_center = FirstConfigured(i, lines[j].item)

(* C17: the error of a product that matches no ignore pattern and no cost  *)
(* center pattern names the event and the product, and no line was logged  *)
(* for that product; an event is passed only when no product is such.      *)
C17_UnmatchedProductFails ==
    /\ (cpc = "failed" /\ classify_result.err.kind = "NoCostCenter") =>
          \E k \in NotIgnored(event_index) :
              /\ ~(\E e \in CostCentersPerProduct(EventConfig) : is_match(e.k, k))
              /\ classify_result.err.reason = EventKey \o "/" \o k
              /\ ItemLines(event_index, k) = {}
              /\ EventConfig.split_per_product
    /\ \A i \in 1..event_index :
          (/\ summaries[i].k \in Keys(event_specific)
           /\ ConfigOf(i).split_per_product
           /\ Processed(i)) =>
              \A k \in NotIgnored(i) :
                  \E e \in CostCentersPerProduct(ConfigOf(i)) : is_match(e.k, k)

(* C17 witness: "Drink" matches no pattern of the event and the run        *)
(* failed on it.                                                           *)
C17_Witness ==
    /\ cpc = "failed"
    /\ classify_result.err = ClsErr("NoCostCenter", EventKey \o "/Drink")

(* C18 as stated: a run that ended in an error has logged no line.         *)
C18_NoLineBeforeError ==
    cpc = "failed" => lines = <<>>

(* C26 as stated: in split mode a product whose total is zero gets no     *)
(* line and is never the product an unmatched-product or unmatched-VAT     *)
(* error names.                                                            *)
C26_ZeroTotalNotClassified ==
    /\ \A j \in DOMAIN lines : lines[j].item # "" => lines[j].amount # 0
    /\ (cpc = "failed" /\ classify_result.err.kind \in {"NoCostCenter", "NoVatCode"}) =>
          \A e \in summaries[event_index].v.items :
              e.v = 0 => classify_result.err.reason # EventKey \o "/" \o e.k

(* The products with a total other than zero are classified as the claim   *)
(* says: each of them that is not ignored has its line once the event is   *)
(* passed.                                                                 *)
NonZeroClassified ==
    \A i \in 1..event_index :
        (/\ summaries[i].k \in Keys(event_specific)
         /\ ConfigOf(i).split_per_product
         /\ Processed(i)) =>
            \A k \in NotIgnored(i) :
                Get(summaries[i].v.items, k) # 0 => Cardinality(ItemLines(i, k)) = 1

-----------------------------------------------------------------------------
(* Claims on the client of the bookkeeping platform. *)

(* C19: a divisioned_url call fails iff no set_division call preceded it;  *)
(* a call that succeeds embeds the division set last in the path; a call   *)
(* leaves the client unchanged, and a failed one sends no request.         *)
C19_DivisionState ==
    /\ [](division.some <=> set_calls > 0)
    /\ [](division.some => division.v = last_set)
    /\ [][url_calls' # url_calls =>
            /\ url_result'.ok <=> set_calls > 0
            /\ url_result'.ok =>
                  /\ Len(url_result'.val) = 3
                  /\ url_result'.val[1] = "/api/v1/"
                  /\ url_result'.val[2] = last_set
                  /\ url_result'.val[3] \in Paths
                  /\ http' \subseteq http \cup {Request("exact", url_result'.val)}
            /\ ~url_result'.ok => /\ http' = http
                                  /\ url_result'.val = <<>>
            /\ division' = division]_vars

(* C19 witness: two divisions were set and, of two calls, one lookup sent  *)
(* its URL, which holds the second division.                               *)
C19_Witness ==
    /\ set_calls = 2
    /\ url_calls = 2
    /\ url_result.ok
    /\ url_result.val[2] = 7
    /\ http = {Request("exact", url_result.val)}

-----------------------------------------------------------------------------
(* Claims on the filter builder. *)

Token(op) ==
    CASE op = "Equals"             -> <<"e", "q">>
      [] op = "NotEqual"           -> <<"n", "e">>
      [] op = "GreaterThan"        -> <<"g", "t">>
      [] op = "GreatherThanEquals" -> <<"g", "e">>
      [] op = "LessThan"           -> <<"l", "t">>
      [] op = "LessThanEquals"     -> <<"l", "e">>

Triple(part) ==
    part.key \o <<"+">> \o Token(part.op) \o <<"+", "'">> \o part.value \o <<"'">>

RECURSIVE Grammar(_)
Grammar(ps) ==
    IF Len(ps) = 1 THEN Triple(ps[1])
    ELSE LET n == Len(ps)
         IN  Grammar(SubSeq(ps, 1, n - 1))
                \o (IF ps[n].conn = "and" THEN <<"+", "a", "n", "d", "+">>
                                          ELSE <<"+", "o", "r", "+">>)
                \o Triple(ps[n])

(* C20: finalize of Filter::new(key, value, op) is key+token(op)+'value',  *)
(* the six operations having six different tokens; and and or append       *)
(* "+and+" and "+or+" followed by the same form, the text built so far     *)
(* staying as it was.                                                      *)
C20_FilterGrammar ==
    /\ \A o1, o2 \in FilterOps :
          o1 # o2 => FilterOp_serialize(o1) # FilterOp_serialize(o2)
    /\ (fpc \in {"built", "finalized"} /\ ~joined) => filter = Grammar(parts)
    /\ (fpc = "finalized" /\ ~joined) => finalized = Grammar(parts)

(* C20 witness: a filter whose key is "(" and whose last value is ")",     *)
(* built by new and or, finalized.                                         *)
C20_Witness ==
    /\ fpc = "finalized"
    /\ Len(parts) = 2
    /\ parts[1].key = <<"(">>
    /\ parts[2].conn = "or"
    /\ parts[2].value = <<")">>
    /\ finalized = <<"(", "+", "n", "e", "+", "'", "b", "'", "+", "o", "r", "+",
                     "F", "+", "e", "q", "+", "'", ")", "'">>

-----------------------------------------------------------------------------
(* Claims on join, finalize and function of the filter builder. *)

(* the positions of a text that lie outside its quoted values: a position  *)
(* is quoted when an odd number of quote marks precedes it                 *)
Unquoted(text) ==
    LET quotes == { j \in 1..Len(text) : text[j] = "'" }
    IN  { i \in (1..Len(text)) \ quotes :
            Cardinality({ j \in quotes : j < i }) % 2 = 0 }

(* the parentheses of a text outside its quoted values are balanced: no    *)
(* prefix closes more than it opens, and the whole text closes all it opens *)
Balanced(text) ==
    LET unquoted == Unquoted(text)
        opens    == { i \in unquoted : text[i] = "(" }
        closes   == { i \in unquoted : text[i] = ")" }
    IN  /\ Cardinality(opens) = Cardinality(closes)
        /\ \A i \in closes :
              Cardinality({ j \in opens : j < i })
                 >= Cardinality({ j \in closes : j <= i })

(* the whole text is enclosed by one matching pair of parentheses *)
Enclosed(text) ==
    /\ Len(text) >= 2
    /\ text[1] = "(" /\ text[Len(text)] = ")"
    /\ Balanced(SubSeq(text, 2, Len(text) - 1))

LastCall == parts[Len(parts)].name

Connective(name) ==
    IF name \in {"and", "join_and"} THEN <<"+", "a", "n", "d", "+">>
                                    ELSE <<"+", "o", "r", "+">>

(* C21: join_and and join_or replace the text by "(" self "+and+" or       *)
(* "+or+" other ")"; finalize removes exactly the outer pair when the      *)
(* whole text is enclosed by one matching pair, which is so exactly when   *)
(* the last call was a join, and leaves the text alone otherwise; the      *)
(* finalized text has balanced parentheses, and a single join finalizes to *)
(* self, connective, other with no parentheses around them.                *)
C21_JoinFinalize ==
    /\ \A i \in 2..Len(parts) :
          parts[i].name \in {"join_and", "join_or"} =>
             parts[i].text = <<"(">> \o parts[i - 1].text
                                \o Connective(parts[i].name)
                                \o parts[i].arg \o <<")">>
    /\ fpc = "finalized" =>
          /\ Enclosed(filter) <=> LastCall \in {"join_and", "join_or"}
          /\ IF Enclosed(filter)
             THEN filter = <<"(">> \o finalized \o <<")">>
             ELSE finalized = filter
          /\ Balanced(finalized)
          /\ (Len(parts) = 2 /\ LastCall \in {"join_and", "join_or"}) =>
                finalized = parts[1].text \o Connective(LastCall) \o parts[2].arg

(* C21 witness: new, join_and, join_or, finalized: the pair of the second  *)
(* join is removed and the pair of the first join stays.                   *)
C21_Witness ==
    /\ fpc = "finalized"
    /\ Len(parts) = 3
    /\ parts[2].name = "join_and" /\ parts[3].name = "join_or"
    /\ finalized = <<"(">> \o parts[1].text \o Connective("and") \o parts[2].arg
                       \o <<")">> \o Connective("or") \o parts[3].arg

(* C21 witness: a join followed by and: the text opens with a parenthesis  *)
(* and is left as it is.                                                   *)
C21_WitnessKept ==
    /\ fpc = "finalized"
    /\ Len(parts) = 3
    /\ parts[2].name = "join_or" /\ parts[3].name = "and"
    /\ finalized = filter /\ finalized[1] = "("

(* C22: a Guid g handed to Filter::new, by value or by reference, is       *)
(* serialized as guid'g' with no plain quotes around it, so the finalized  *)
(* filter of one comparison is key+token+guid'g', and the filter that      *)
(* get_sales_entry_lines sends for g is EntryID+eq+guid'g'.                *)
C22_GuidSerialized ==
    (/\ fpc = "finalized"
     /\ Len(parts) = 1
     /\ parts[1].value.kind \in {"Guid", "RefGuid"}) =>
        /\ \E key \in BuilderKeys, op \in BuilderOps :
              finalized = key \o <<"+">> \o FilterOp_serialize(op) \o <<"+">>
                              \o Guid_serialize(parts[1].value.text)
        /\ finalized = get_sales_entry_lines(Guid_new(parts[1].value.text)) =>
              finalized = EntryID \o <<"+", "e", "q", "+">>
                                  \o Guid_serialize(parts[1].value.text)

(* C22, by value only: the same for a Guid handed over by value. *)
C22_GuidByValue ==
    (/\ fpc = "finalized"
     /\ Len(parts) = 1
     /\ parts[1].value.kind = "Guid") =>
        \E key \in BuilderKeys, op \in BuilderOps :
           finalized = key \o <<"+">> \o FilterOp_serialize(op) \o <<"+">>
                           \o Guid_serialize(parts[1].value.text)

(* a comparison appended by the i-th call follows the text built before   *)
(* it after exactly one of the connectives "+and+" and "+or+"              *)
Connected(i) ==
    \E name \in {"and", "or"} :
       parts[i].text = parts[i - 1].text \o Connective(name) \o parts[i].arg

(* C30: after any sequence of new, and, or, function, join_and, join_or,   *)
(* every comparison appended to the filter, one appended with function     *)
(* included, is separated from the expression before it by exactly one of  *)
(* the tokens and, or, up to and in the finalized text.                    *)
C30_ConnectiveBetween ==
    /\ \A i \in 2..Len(parts) :
          parts[i].name \in {"and", "or", "function"} => Connected(i)
    /\ (fpc = "finalized" /\ Len(parts) >= 2 /\ LastCall = "function") =>
          \E name \in {"and", "or"} :
             finalized = parts[Len(parts) - 1].text \o Connective(name)
                            \o parts[Len(parts)].arg

(* C30, and and or only: the comparisons appended with and and or are      *)
(* joined by their connective.                                             *)
C30_AndOrConnected ==
    \A i \in 2..Len(parts) : parts[i].name \in {"and", "or"} => Connected(i)

-----------------------------------------------------------------------------
(* Claims on execute_mode. *)

(* C8: periods_ago = 0 is rejected before any HTTP request: the run ends   *)
(* in the error of the check, no request was sent to Exact or Pretix and   *)
(* the fan-out was never entered.                                          *)
C8_ZeroPeriodsRejected ==
    periods_ago = 0 =>
        /\ rpc \in {"start", "failed"}
        /\ rpc = "failed" => run_result = RunErr(ErrPeriodsAgo)
        /\ http = {}
        /\ tpc = "idle"
        /\ orgs = <<>>

(* C8 witness: a run with periods_ago = 0 on a client with a division has  *)
(* ended.                                                                  *)
C8_Witness ==
    /\ periods_ago = 0
    /\ division.some
    /\ rpc = "failed"
    /\ run_result.returned

(* the check of pretix_export_period was made on the start of the window  *)
MondayChecked == period.ok \/ period.err # "none"

Divisioned == {Request("exact", "sales_entry"), Request("exact", "sales_entry_lines")}

ToPretix(reqs) == {r \in reqs : r.api = "pretix"}

(* C28: the sales-entry lookup and the sales-entry-lines lookup are sent   *)
(* and answered before any request goes to the ticketing platform; a run   *)
(* in which a lookup fails ends with the error of the lookup, and neither  *)
(* before nor after has a listing or an export been started.               *)
C28_LookupsBeforeTicketing ==
    /\ [](rpc \in {"start", "sales_entry", "sales_entry_lines", "panicked"} =>
             /\ ToPretix(http) = {}
             /\ tpc = "idle" /\ orgs = <<>>)
    /\ [](ToPretix(http) # {} =>
             /\ Divisioned \subseteq http
             /\ rpc \in {"totals", "classify", "failed"}
             /\ run_result.err \notin {ErrExact, ErrNoDivision})
    /\ [](run_result.err \in {ErrExact, ErrNoDivision} =>
             /\ rpc = "failed"
             /\ ToPretix(http) = {}
             /\ tpc = "idle" /\ orgs = <<>>)
    /\ [][/\ ToPretix(http') # ToPretix(http) => rpc = "totals"
          /\ run_result.err \in {ErrExact, ErrNoDivision} => FALSE
          /\ rpc' = "totals" => rpc \in {"sales_entry_lines", "totals"}]_vars

(* C28 witness: the lookup of the lines of the sales entry failed; the run *)
(* ended with its error and the fan-out was never entered.                 *)
C28_Witness ==
    /\ rpc = "failed"
    /\ run_result = RunErr(ErrExact)
    /\ http = Divisioned
    /\ tpc = "idle"

(* C28 witness: exports are running, after both lookups. *)
C28_WitnessExports ==
    /\ rpc = "totals"
    /\ Divisioned \subseteq http
    /\ Request("pretix", "run_json") \in http

-----------------------------------------------------------------------------
(* Claims on the export driver. *)

(* C1: when the download URL answers 409 n times and then 200, the driver  *)
(* stays Pending through the n conflicts, issues exactly n+1 GETs with one *)
(* sleep of BackoffSecs after each 409 (none before the first poll, none   *)
(* after the 200) and returns the 200 response.  Stated at every position  *)
(* of the loop, for the polls the counters count.                          *)
C1_ConflictsThenOk ==
    gets < MaxPolls =>
        /\ xpc = "poll"  => /\ gets = conflicts
                            /\ slept = conflicts * BackoffSecs
        /\ xpc = "wait"  => /\ gets = conflicts + 1
                            /\ slept = conflicts * BackoffSecs
        /\ xpc = "sleep" => /\ gets = conflicts
                            /\ slept = (conflicts - 1) * BackoffSecs
        /\ resp.status = StatusConflict => DriverState = "Pending"
        /\ xpc = "ready" => /\ resp.status = StatusOk
                            /\ gets = conflicts + 1
                            /\ slept = conflicts * BackoffSecs
                            /\ result = Returned(resp)

(* C1 witness: 409, 409, 200. *)
C1_Witness ==
    /\ xpc = "ready"
    /\ conflicts = 2
    /\ gets = 3
    /\ slept = 2 * BackoffSecs
    /\ result.val.body = Body("data", "orders")

(* C2 as stated: a poll answered 410 ends the driver in Failed with the    *)
(* reason the message of that response.                                    *)
C2_GoneAlwaysExportFail ==
    resp.status = StatusGone =>
        /\ xpc = "failed"
        /\ result.err = ErrExportFail(resp.body.text)

(* C2 amended: a poll answered 410 is the last poll; when the body of the  *)
(* 410 decodes to a JSON object with a string `message` the driver ends in *)
(* Failed with exactly that message as reason, and when it does not decode *)
(* the driver ends with the request error of the failed decoding.          *)
C2_GoneEndsDriver ==
    resp.status = StatusGone =>
        /\ ~ENABLED NextExport
        /\ DecodesGone(resp.body) =>
              /\ xpc = "failed"
              /\ result = Raised(ErrExportFail(resp.body.text))
        /\ ~DecodesGone(resp.body) =>
              /\ xpc = "request_error"
              /\ result = Raised(ErrRequest)

(* C2 witness: a 410 with a message after one conflict. *)
C2_Witness ==
    /\ xpc = "failed"
    /\ conflicts = 1
    /\ resp = Response(StatusGone, Body("message", "event deleted"))
    /\ result.err.reason = "event deleted"

(* C23 as stated: a driver that has terminated is in Ready, Failed or      *)
(* Unknown-Error, the start-export call has returned a download URL and at *)
(* least one poll of it was answered.                                      *)
C23_ThreeTerminalStates ==
    result.returned =>
        /\ DriverState \in {"Ready", "Failed", "UnknownError"}
        /\ url \in Urls
        /\ gets >= 1
        /\ resp # NoResp

(* a step of the driver: where it may come from *)
DriverStep ==
    /\ DriverState \notin {"Ready", "Failed", "UnknownError", "RequestError"}
    /\ (DriverState' \in {"Ready", "Failed", "UnknownError"}) => xpc = "wait"
    /\ (DriverState' = "RequestError") => xpc \in {"run", "wait"}
    /\ (DriverState' = "Pending") => DriverState \in {"Requested", "Pending"}

(* C23 amended: a driver that has terminated is in exactly one of Ready,   *)
(* Failed, Unknown-Error and the request error, with the result of that    *)
(* state; Ready, Failed and Unknown-Error are entered only from Pending,   *)
(* with a download URL and on the answer of a poll; the request error is   *)
(* entered from Requested, when the start-export call fails, or from       *)
(* Pending, when a poll fails in transport or the body of a 410 does not   *)
(* decode; Pending is entered from Requested only with a download URL; and *)
(* a terminal state is never left.                                         *)
C23_TerminalOutcomes ==
    /\ [](result.returned <=>
             DriverState \in {"Ready", "Failed", "UnknownError", "RequestError"})
    /\ [](DriverState = "Ready" =>
             /\ result = Returned(resp) /\ resp.status = StatusOk)
    /\ [](DriverState = "Failed" =>
             /\ result.err.kind = "ExportFail"
             /\ resp.status = StatusGone /\ resp.body.kind = "message")
    /\ [](DriverState = "UnknownError" =>
             /\ result = Raised(ErrOther(resp.status))
             /\ resp.status \notin {StatusOk, StatusConflict, StatusGone})
    /\ [](DriverState = "RequestError" =>
             /\ result = Raised(ErrRequest)
             /\ \/ url = "" /\ gets = 0
                \/ url \in Urls /\ gets >= 1 /\ resp = NoResp
                \/ url \in Urls /\ gets >= 1 /\ resp.status = StatusGone
                      /\ resp.body.kind # "message")
    /\ [](DriverState \in {"Pending", "Ready", "Failed", "UnknownError"} =>
             url \in Urls)
    /\ [](DriverState \in {"Ready", "Failed", "UnknownError"} =>
             gets >= 1 /\ resp # NoResp)
    /\ [][DriverStep]_vars

(* C23 witness: the second poll fails in transport and the driver ends     *)
(* with the request error, in none of the three states.                    *)
C23_Witness ==
    /\ xpc = "request_error"
    /\ url \in Urls
    /\ gets = 2 /\ conflicts = 1
    /\ resp = NoResp
    /\ result = Raised(ErrRequest)

(* C23 witness: the start-export call fails; the driver ends in Requested  *)
(* without a download URL and without a poll.                              *)
C23_WitnessStart ==
    /\ xpc = "request_error"
    /\ url = "" /\ gets = 0
    /\ result = Raised(ErrRequest)

(* C3: a poll answered with a status other than 409, 200 and 410 ends the  *)
(* driver at once in Unknown-Error carrying that status, and no step of    *)
(* the driver follows.                                                     *)
C3_OtherStatusUnknown ==
    resp.status \notin {NoResp.status, StatusConflict, StatusOk, StatusGone} =>
        /\ xpc = "unknown"
        /\ result = Raised(ErrOther(resp.status))
        /\ ~ENABLED NextExport

(* C3 witness: 202 after one conflict. *)
C3_Witness ==
    /\ xpc = "unknown"
    /\ conflicts = 1
    /\ resp.status = 202
    /\ result.err.status = 202

-----------------------------------------------------------------------------
(* Claims on the window. *)

RetainedIds == {export_items[i].id : i \in DOMAIN export_items}

(* C7: the start computed from last_monday(offset) minus periods_ago weeks *)
(* (periods_ago >= 1) is a Monday at 00:00 in the offset;                  *)
(* pretix_export_period returns that start and the start plus exactly six  *)
(* days at 00:00 in the offset, never the non-Monday error; the whole      *)
(* window lies before the current instant.                                 *)
C7_WindowIsWeekBeforeNow ==
    /\ wpc \in {"start", "period", "filtered"} =>
          /\ weekday(export_period_start) = Monday
          /\ time_of_day(export_period_start) = Midnight
          /\ export_period_start.off = offset
          /\ export_period_start =
                minus_seconds(last_monday(now, offset),
                              periods_ago * 7 * SecondsPerDay)
    /\ wpc \in {"period", "filtered"} =>
          /\ period.ok
          /\ period.val.start = export_period_start
          /\ period.val.end.off = offset
          /\ period.val.end.utc = export_period_start.utc + 6 * SecondsPerDay
          /\ time_of_day(period.val.end) = Midnight
          /\ period.val.start.utc < now
          /\ period.val.end.utc < now

(* C7 witness: the clock read on a Sunday, in its last second, east of     *)
(* Greenwich, two periods ago, and the window computed.                    *)
C7_Witness ==
    /\ wpc = "period"
    /\ period.ok
    /\ weekday(OffsetDateTime(now, offset)) = Sunday
    /\ offset > 0
    /\ periods_ago = 2

(* C9 as stated: every order whose timestamp, in the run's offset, falls   *)
(* on one of the seven calendar days from the window's Monday up to and    *)
(* including its Sunday is retained by the window filter.                  *)
C9_SevenDaysRetained ==
    wpc = "filtered" =>
        \A i \in DOMAIN orders :
            LET d == date(to_offset(orders[i].datetime, offset))
            IN  (date(period.val.start) <= d /\ d <= date(period.val.start) + 6)
                    => orders[i].id \in RetainedIds

(* C10: an order is retained iff period_start <= datetime <= period_end;   *)
(* retained orders keep their input order.                                 *)
C10_InclusiveBothEnds ==
    wpc = "filtered" =>
        /\ \A i \in DOMAIN orders :
              orders[i].id \in RetainedIds <=>
                  /\ period.val.start.utc <= orders[i].datetime.utc
                  /\ orders[i].datetime.utc <= period.val.end.utc
        /\ \A i \in DOMAIN export_items :
              /\ export_items[i].id \in DOMAIN orders
              /\ orders[export_items[i].id] = export_items[i]
        /\ \A i, j \in DOMAIN export_items :
              i < j => export_items[i].id < export_items[j].id

(* C10 witness: an export holding an order stamped one second after the    *)
(* window end followed by one stamped exactly at the end; only the second  *)
(* is retained.                                                            *)
C10_Witness ==
    /\ wpc = "filtered"
    /\ Len(orders) = 2
    /\ orders[1].datetime.utc = period.val.end.utc + 1
    /\ orders[2].datetime.utc = period.val.end.utc
    /\ export_items = <<orders[2]>>

(* C10 witness of the start: an order one second before the start is       *)
(* dropped, one exactly at the start is kept.                              *)
C10_WitnessStart ==
    /\ wpc = "filtered"
    /\ Len(orders) = 2
    /\ orders[1].datetime.utc = period.val.start.utc
    /\ orders[2].datetime.utc = period.val.start.utc - 1
    /\ export_items = <<orders[1]>>

=============================================================================
